---- MODULE Spec2Model ----
(***************************************************************************)
(* Variant catalog loader, external cache gateway, variant index and the   *)
(* dataset selection of the gene-edit service.                             *)
(*                                                                         *)
(*   services/redis_cache.py   RedisCache      (the cache gateway)         *)
(*   services/bim_parser.py    BIMParser       (loader + index)            *)
(*   services/dataset_manager.py DatasetManager (the registry)             *)
(*   main.py                   lifespan, _get_or_load_dataset, endpoints   *)
(*                                                                         *)
(* Python's Optional[T] is a sequence of length 0 (None) or 1 (a value),   *)
(* so that a value and its absence can be compared.                        *)
(***************************************************************************)
EXTENDS Integers, Sequences, FiniteSets, TLC

VARIABLES
    redisUp,        \* the Redis server answers ping and commands
    client,         \* RedisCache.client is not None
    store,          \* the keys held by the Redis server
    parsers,        \* library level: the BIMParser objects under test
    catalog,        \* library level: the catalog both parsers were built for
    last,           \* library level: the last call and what it returned
    phase,          \* service: "off", "boot" (before lifespan ran) or "serving"
    fileStatus,     \* service: each catalog file is "ok", "missing" or "malformed"
    datasets,       \* service: DatasetManager.datasets, in insertion order
    hasCache,       \* service: main.redis_cache is not None
    bim_parser,     \* service: main.bim_parser
    current_dataset_name,   \* service: main.current_dataset_name
    loadedEver,     \* service: the catalogs that have been the loaded active one
    req,            \* service: the last request served and its outcome
    oracle_loaded   \* service: is_loaded of the two model wrappers

libVars == <<parsers, catalog, last>>
svcVars == <<phase, fileStatus, datasets, hasCache, bim_parser,
             current_dataset_name, loadedEver, req, oracle_loaded>>
vars == <<redisUp, client, store, libVars, svcVars>>

Nil == <<>>
Some(x) == <<x>>

----------------------------------------------------------------------------
(* The catalog files on disk                                               *)

\* One line of a .bim file: six tab-separated text fields.
Line(c, id, pos, ref, alt) ==
    [chromosome |-> c, snp_id |-> id, genetic_distance |-> 0,
     position |-> pos, ref_allele |-> ref, alt_allele |-> alt]

\* maize: every chromosome field is a number (the scenario of the spec's
\* section 8).  rice: a file that also names chromosome "X" and repeats one
\* (chromosome, position) key.  cotton: one chromosome, not a number.
\* rice2: a second rice catalog, whose name starts with "rice".
\* soyabean: six records of chromosome "1" within a thousand units of the
\* start of the sequence, the nearest of them in the sixth row.
FileLines(name) ==
    CASE name = "maize"  -> << Line("1", "rs1", 100, "A", "G"),
                               Line("1", "rs2", 900, "A", "T") >>
      [] name = "rice"   -> << Line("1", "rs3", 100, "A", "C"),
                               Line("X", "rs4", 950, "G", "T"),
                               Line("1", "rs5", 100, "C", "T") >>
      [] name = "cotton" -> << Line("X", "rs6", 500, "T", "C") >>
      [] name = "rice2"  -> << Line("X", "rs7", 950, "C", "A") >>
      [] name = "soyabean" -> << Line("1", "rs20", 20, "A", "G"),
                                 Line("1", "rs21", 25, "C", "T"),
                                 Line("1", "rs22", 30, "G", "A"),
                                 Line("1", "rs23", 35, "T", "C"),
                                 Line("1", "rs24", 900, "A", "C"),
                                 Line("1", "rs25", 12, "G", "T"),
                                 Line("X", "rs26", 10, "A", "T") >>
      [] OTHER           -> << >>

\* The chromosome texts that parse as integers.
NumericTexts == {"1", "2"}

Chromosomes == {"1", "X"}
Positions == {100, 950}

----------------------------------------------------------------------------
(* pandas: read_csv and the comparisons on the table                       *)

\* A cell of the chromosome column: read_csv is given no dtype, so it
\* infers one for the column: int64 when every field of the column parses
\* as an integer, object (the texts themselves) otherwise.
Cell(isInt, text) == [int |-> isInt, text |-> text]

\* pd.read_csv(...) + pd.concat(chunks): the table of a readable file.  The
\* files are shorter than chunk_size, so there is one chunk.
ReadCsv(lines) ==
    LET allInt == \A i \in 1..Len(lines) : lines[i].chromosome \in NumericTexts
    IN  [i \in 1..Len(lines) |->
            [lines[i] EXCEPT !.chromosome = Cell(allInt, lines[i].chromosome)]]

\* str(row['chromosome'])
Str(cell) == cell.text

\* snp_data['chromosome'] == str(chromosome), element-wise: an int64 column
\* compared with a str is False in every row.
ChromEq(cell, chromosome) == (~cell.int) /\ cell.text = chromosome

\* json.dumps / json.loads of a dict or list of str, int and float values.
JsonDumps(x) == [json |-> x]
JsonLoads(s) == s.json

----------------------------------------------------------------------------
(* services/redis_cache.py: RedisCache                                     *)

\* What a gateway method hands back: its return value, the keys the server
\* holds afterwards, and whether an exception left the method.
Ret(val, st) == [val |-> val, store |-> st, raised |-> FALSE]
Raise(st)    == [val |-> Nil, store |-> st, raised |-> TRUE]

EmptyStore == [index |-> [n \in {} |-> Nil],
               meta  |-> [n \in {} |-> Nil],
               region |-> [k \in {} |-> Nil]]

\* The gateway object as the methods see it.
Gateway(cl, up, st) == [client |-> cl, up |-> up, store |-> st]

\* is_connected: no client, or a failing ping, is "not connected".
is_connected(gw) == gw.client /\ gw.up

\* f"{chrom}:{pos}", the field of one SNP inside the index hash.  pos is an
\* int, so the pair can be read back from the text.
SnpField(chrom, pos) == <<chrom, pos>>

\* _get_region_key
RegionKey(name, chrom, start, end) == <<name, chrom, start, end>>

\* HSET key mapping: the fields given are added to (or replace those of)
\* the hash already stored under the key.
HSet(hashes, name, mapping) ==
    LET old == IF name \in DOMAIN hashes THEN hashes[name] ELSE << >>
        new == [f \in DOMAIN old \cup DOMAIN mapping |->
                   IF f \in DOMAIN mapping THEN mapping[f] ELSE old[f]]
    IN  IF DOMAIN new = {} THEN hashes
        ELSE [n \in DOMAIN hashes \cup {name} |->
                 IF n = name THEN new ELSE hashes[n]]

\* DEL of the keys in ks
Del(f, ks) == [k \in DOMAIN f \ ks |-> f[k]]

\* cache_index_exists.  flt: the client call inside the try raises.
cache_index_exists(gw, name, flt) ==
    IF ~is_connected(gw) THEN Ret(FALSE, gw.store)
    ELSE IF flt THEN Ret(FALSE, gw.store)
    ELSE Ret(name \in DOMAIN gw.store.index, gw.store)

\* cache_index: metadata and the whole index in one pipeline (MULTI/EXEC),
\* so a failing call stores nothing.
cache_index(gw, name, index_data, metadata, flt) ==
    IF ~is_connected(gw) THEN Ret(Nil, gw.store)
    ELSE IF flt THEN Ret(Nil, gw.store)
    ELSE LET index_hash == [f \in DOMAIN index_data |-> JsonDumps(index_data[f])]
             withMeta == IF metadata # Nil
                         THEN HSet(gw.store.meta, name, metadata[1])
                         ELSE gw.store.meta
         IN  Ret(Nil, [gw.store EXCEPT !.meta = withMeta,
                                       !.index = HSet(@, name, index_hash)])

\* get_cached_snp
get_cached_snp(gw, name, chrom, pos, flt) ==
    IF ~is_connected(gw) THEN Ret(Nil, gw.store)
    ELSE IF flt THEN Ret(Nil, gw.store)
    ELSE IF name \in DOMAIN gw.store.index
            /\ SnpField(chrom, pos) \in DOMAIN gw.store.index[name]
         THEN Ret(Some(JsonLoads(gw.store.index[name][SnpField(chrom, pos)])),
                  gw.store)
         ELSE Ret(Nil, gw.store)

\* get_cached_region
get_cached_region(gw, name, chrom, start, end, flt) ==
    IF ~is_connected(gw) THEN Ret(Nil, gw.store)
    ELSE IF flt THEN Ret(Nil, gw.store)
    ELSE LET k == RegionKey(name, chrom, start, end)
         IN  IF k \in DOMAIN gw.store.region
             THEN Ret(Some(JsonLoads(gw.store.region[k])), gw.store)
             ELSE Ret(Nil, gw.store)

\* cache_region: SETEX region_key ttl json
cache_region(gw, name, chrom, start, end, snps, flt) ==
    IF ~is_connected(gw) THEN Ret(Nil, gw.store)
    ELSE IF flt THEN Ret(Nil, gw.store)
    ELSE LET k == RegionKey(name, chrom, start, end)
         IN  Ret(Nil, [gw.store EXCEPT !.region =
                        [x \in DOMAIN @ \cup {k} |->
                            IF x = k THEN JsonDumps(snps) ELSE @[x]]])

\* get_cached_metadata: HGETALL of a key that is not there is {}.
get_cached_metadata(gw, name, flt) ==
    IF ~is_connected(gw) THEN Ret(Nil, gw.store)
    ELSE IF flt THEN Ret(Nil, gw.store)
    ELSE IF name \in DOMAIN gw.store.meta
         THEN Ret(Some(gw.store.meta[name]), gw.store)
         ELSE Ret(Nil, gw.store)

\* Whether text b starts with text a, for the dataset names of the model:
\* "rice2" is the one name that has another name, "rice", as a proper prefix.
StartsWith(b, a) == a = b \/ (a = "rice" /\ b = "rice2")

\* invalidate_dataset with the except clause left out: a failing KEYS or DEL
\* reaches the caller.
invalidate_dataset_no_except(gw, name, flt) ==
    IF ~is_connected(gw) THEN Ret(Nil, gw.store)
    ELSE IF flt THEN Raise(gw.store)
    ELSE Ret(Nil,
             [index  |-> Del(gw.store.index,
                             {n \in DOMAIN gw.store.index : StartsWith(n, name)}),
              meta   |-> Del(gw.store.meta,
                             {n \in DOMAIN gw.store.meta : StartsWith(n, name)}),
              region |-> Del(gw.store.region,
                             {k \in DOMAIN gw.store.region : StartsWith(k[1], name)})])

\* invalidate_dataset with the pattern "snp:index:{name}*": the metadata and
\* region keys of the catalog stay.
invalidate_dataset_index_only(gw, name, flt) ==
    IF ~is_connected(gw) THEN Ret(Nil, gw.store)
    ELSE IF flt THEN Ret(Nil, gw.store)
    ELSE Ret(Nil,
             [gw.store EXCEPT !.index =
                 Del(@, {n \in DOMAIN gw.store.index : StartsWith(n, name)})])

\* invalidate_dataset: KEYS "snp:*:{name}*" and DEL of what it lists.
invalidate_dataset(gw, name, flt) ==
    IF ~is_connected(gw) THEN Ret(Nil, gw.store)
    ELSE IF flt THEN Ret(Nil, gw.store)
    ELSE Ret(Nil,
             [index  |-> Del(gw.store.index,
                             {n \in DOMAIN gw.store.index : StartsWith(n, name)}),
              meta   |-> Del(gw.store.meta,
                             {n \in DOMAIN gw.store.meta : StartsWith(n, name)}),
              region |-> Del(gw.store.region,
                             {k \in DOMAIN gw.store.region : StartsWith(k[1], name)})])

----------------------------------------------------------------------------
(* services/bim_parser.py: BIMParser                                       *)

\* __init__.  file is the catalog file the path names; redis_cache says whether
\* a RedisCache object was handed in.
BIMParser(file, dataset_name, redis_cache, use_cache) ==
    [file |-> file, dataset_name |-> dataset_name,
     use_cache |-> use_cache /\ redis_cache,
     snp_data |-> Nil, snp_index |-> << >>, index_loaded |-> FALSE]

\* The dict _build_index stores for one row.
IndexEntry(row) ==
    [snp_id |-> row.snp_id, ref_allele |-> row.ref_allele,
     alt_allele |-> row.alt_allele, genetic_distance |-> row.genetic_distance,
     chromosome |-> Str(row.chromosome), position |-> row.position]

\* key = (str(row['chromosome']), int(row['position']))
IndexKey(row) == <<Str(row.chromosome), row.position>>

\* _build_index that keeps the first row of a key (an "if key not in
\* self.snp_index" before the assignment).
build_index_first_row(p) ==
    IF p.snp_data = Nil THEN p
    ELSE LET rows == p.snp_data[1]
             keys == {IndexKey(rows[i]) : i \in 1..Len(rows)}
             firstAt(k) == CHOOSE i \in 1..Len(rows) :
                              /\ IndexKey(rows[i]) = k
                              /\ \A j \in 1..Len(rows) :
                                    IndexKey(rows[j]) = k => i <= j
         IN  [p EXCEPT !.snp_index = [k \in keys |-> IndexEntry(rows[firstAt(k)])]]

\* _build_index: one pass over the rows in file order, each row assigned to
\* its key, so of the rows sharing a key the last one stays.
build_index(p) ==
    IF p.snp_data = Nil THEN p
    ELSE LET rows == p.snp_data[1]
             keys == {IndexKey(rows[i]) : i \in 1..Len(rows)}
             lastAt(k) == CHOOSE i \in 1..Len(rows) :
                             /\ IndexKey(rows[i]) = k
                             /\ \A j \in 1..Len(rows) :
                                   IndexKey(rows[j]) = k => j <= i
         IN  [p EXCEPT !.snp_index = [k \in keys |-> IndexEntry(rows[lastAt(k)])]]

\* _load_index_from_cache
load_index_from_cache(p, gw, flt) ==
    IF ~p.use_cache THEN p
    ELSE LET metadata == get_cached_metadata(gw, p.dataset_name, flt)
         IN  IF ~metadata.raised /\ metadata.val # Nil
             THEN [p EXCEPT !.index_loaded = TRUE]
             ELSE p

\* _cache_index
cache_index_of(p, gw, flt) ==
    IF ~p.use_cache \/ DOMAIN p.snp_index = {} THEN gw.store
    ELSE LET metadata == [dataset_name |-> p.dataset_name,
                          total_snps |-> Cardinality(DOMAIN p.snp_index),
                          file_path |-> p.file]
         IN  cache_index(gw, p.dataset_name, p.snp_index, Some(metadata), flt).store

\* What load_bim_file leaves behind: the parser, the server's keys, whether
\* an exception left it, whether it read the file and whether it built the
\* index.
Loaded(p, st, raised, read, built) ==
    [parser |-> p, store |-> st, raised |-> raised, read |-> read, built |-> built]

\* The faults of the gateway calls one load makes: none, or one call raises.
NoLoadFaults == [exists |-> FALSE, meta |-> FALSE, write |-> FALSE]
LoadFaults == {NoLoadFaults,
               [NoLoadFaults EXCEPT !.exists = TRUE],
               [NoLoadFaults EXCEPT !.meta = TRUE],
               [NoLoadFaults EXCEPT !.write = TRUE]}

\* load_bim_file.  status is the state of the file on disk: read_csv raises
\* unless it is "ok".
load_bim_file(p, gw, status, force_reload, f) ==
    IF p.index_loaded /\ ~force_reload THEN Loaded(p, gw.store, FALSE, FALSE, FALSE)
    ELSE
    LET exists == /\ p.use_cache /\ ~force_reload
                  /\ cache_index_exists(gw, p.dataset_name, f.exists).val
        p1 == IF exists THEN load_index_from_cache(p, gw, f.meta) ELSE p
    IN  IF exists /\ p1.index_loaded
        THEN \* _load_dataframe_only
             IF p1.snp_data # Nil THEN Loaded(p1, gw.store, FALSE, FALSE, FALSE)
             ELSE IF status # "ok" THEN Loaded(p1, gw.store, TRUE, FALSE, FALSE)
             ELSE Loaded([p1 EXCEPT !.snp_data = Some(ReadCsv(FileLines(p.file)))],
                         gw.store, FALSE, TRUE, FALSE)
        ELSE IF status # "ok" THEN Loaded(p1, gw.store, TRUE, FALSE, FALSE)
        ELSE LET p2 == build_index(
                          [p1 EXCEPT !.snp_data = Some(ReadCsv(FileLines(p.file)))])
             IN  Loaded([p2 EXCEPT !.index_loaded = TRUE],
                        cache_index_of(p2, gw, f.write), FALSE, TRUE, TRUE)

\* get_snp_at_position
get_snp_at_position(p, gw, chromosome, position, flt) ==
    LET cached == IF p.use_cache
                  THEN get_cached_snp(gw, p.dataset_name, chromosome, position, flt)
                  ELSE Ret(Nil, gw.store)
        key == <<chromosome, position>>
    IN  IF cached.raised THEN Raise(gw.store)
        ELSE IF cached.val # Nil THEN Ret(cached.val, gw.store)
        ELSE IF key \in DOMAIN p.snp_index
             THEN Ret(Some(p.snp_index[key]), gw.store)
             ELSE Ret(Nil, gw.store)

\* The faults of the gateway calls one range query makes.
NoRegionFaults == [read |-> FALSE, write |-> FALSE]
RegionFaults == {NoRegionFaults,
                 [NoRegionFaults EXCEPT !.read = TRUE],
                 [NoRegionFaults EXCEPT !.write = TRUE]}

\* snp_data[mask].to_dict('records')
Scan(rows, chromosome, start, end) ==
    SelectSeq(rows, LAMBDA r : /\ ChromEq(r.chromosome, chromosome)
                               /\ r.position >= start
                               /\ r.position <= end)

\* get_snps_in_region
get_snps_in_region(p, gw, chromosome, start, end, f) ==
    LET cached == IF p.use_cache
                  THEN get_cached_region(gw, p.dataset_name, chromosome, start, end,
                                         f.read)
                  ELSE Ret(Nil, gw.store)
    IN  IF cached.raised THEN Raise(gw.store)
        ELSE IF cached.val # Nil THEN Ret(cached.val[1], gw.store)
        ELSE IF p.snp_data = Nil THEN Ret(<< >>, gw.store)
        ELSE LET snps == Scan(p.snp_data[1], chromosome, start, end)
             IN  IF p.use_cache /\ snps # << >>
                 THEN LET w == cache_region(gw, p.dataset_name, chromosome,
                                            start, end, snps, f.write)
                      IN  IF w.raised THEN Raise(w.store) ELSE Ret(snps, w.store)
                 ELSE Ret(snps, gw.store)

\* find_snps_near_position
find_snps_near_position(p, gw, chromosome, position, window, f) ==
    get_snps_in_region(p, gw, chromosome, position - window, position + window, f)

----------------------------------------------------------------------------
(* Library level: NParsers parsers of one catalog over one shared cache    *)

NParsers == 2
ParserIds == 1..NParsers
LibraryCatalogs == {"maize", "rice", "rice2"}

\* The (start, end) pairs of the range queries, and the (position, window)
\* pairs of the near-position queries.
QueryRanges == {<<100, 100>>, <<101, 900>>}
NearQueries == {<<500, 1000>>, <<500, 300>>}

Gw == Gateway(client, redisUp, store)

NoOp == [op |-> "none"]
NoReq == [kind |-> "none"]

\* Neither model wrapper has a model: the model paths are unset (config.py).
NotLoaded == [graph_crispr |-> FALSE, dnabert |-> FALSE]

Init ==
    /\ redisUp \in BOOLEAN
    /\ client = redisUp           \* RedisCache.__init__ pings once
    /\ store = EmptyStore
    /\ catalog \in LibraryCatalogs
    /\ parsers = [i \in ParserIds |-> BIMParser(catalog, catalog, TRUE, TRUE)]
    /\ last = NoOp
    /\ phase = "off"
    /\ fileStatus = [n \in LibraryCatalogs |-> "ok"]
    /\ datasets = << >>
    /\ hasCache = FALSE
    /\ bim_parser = Nil
    /\ current_dataset_name = Nil
    /\ loadedEver = {}
    /\ req = NoReq
    /\ oracle_loaded = NotLoaded

\* parser.load_bim_file(force_reload=force)
Load(i, force, f) ==
    LET r == load_bim_file(parsers[i], Gw, "ok", force, f)
    IN  /\ parsers' = [parsers EXCEPT ![i] = r.parser]
        /\ store' = r.store
        /\ last' = [op |-> "load", who |-> i, force |-> force,
                    raised |-> r.raised, read |-> r.read, built |-> r.built,
                    was_loaded |-> parsers[i].index_loaded,
                    prev_index |-> parsers[i].snp_index]
        /\ UNCHANGED <<redisUp, client, catalog, svcVars>>

\* parser.get_snp_at_position(chromosome, position)
PointQuery(i, chromosome, position, flt) ==
    LET r == get_snp_at_position(parsers[i], Gw, chromosome, position, flt)
    IN  /\ last' = [op |-> "point", who |-> i, chromosome |-> chromosome,
                    position |-> position, val |-> r.val, raised |-> r.raised,
                    cached |-> get_cached_snp(Gw, parsers[i].dataset_name,
                                              chromosome, position, flt).val]
        /\ UNCHANGED <<redisUp, client, store, parsers, catalog, svcVars>>

\* parser.get_snps_in_region(chromosome, start, end)
RangeQuery(i, chromosome, start, end, f) ==
    LET r == get_snps_in_region(parsers[i], Gw, chromosome, start, end, f)
    IN  /\ store' = r.store
        /\ last' = [op |-> "range", who |-> i, chromosome |-> chromosome,
                    start |-> start, end |-> end, val |-> r.val,
                    raised |-> r.raised]
        /\ UNCHANGED <<redisUp, client, parsers, catalog, svcVars>>

\* parser.find_snps_near_position(chromosome, position, window)
NearQuery(i, chromosome, position, window, f) ==
    LET r == find_snps_near_position(parsers[i], Gw, chromosome, position, window, f)
    IN  /\ store' = r.store
        /\ last' = [op |-> "near", who |-> i, chromosome |-> chromosome,
                    position |-> position, window |-> window, val |-> r.val,
                    raised |-> r.raised]
        /\ UNCHANGED <<redisUp, client, parsers, catalog, svcVars>>

\* redis_cache.invalidate_dataset(name)
Invalidate(name, flt) ==
    LET r == invalidate_dataset(Gw, name, flt)
    IN  /\ store' = r.store
        /\ last' = [op |-> "invalidate", name |-> name,
                    failed |-> ~is_connected(Gw) \/ flt,
                    raised |-> r.raised, changed |-> r.store # store]
        /\ UNCHANGED <<redisUp, client, parsers, catalog, svcVars>>

\* The Redis server becomes unreachable, or reachable again.
RedisDown == /\ redisUp /\ redisUp' = FALSE
             /\ UNCHANGED <<client, store, libVars, svcVars>>
RedisBack == /\ ~redisUp /\ redisUp' = TRUE
             /\ UNCHANGED <<client, store, libVars, svcVars>>

\* One key of the server expires (its TTL ran out, or it was evicted).
ExpireIndex(n) == /\ n \in DOMAIN store.index
                  /\ store' = [store EXCEPT !.index = Del(@, {n})]
                  /\ UNCHANGED <<redisUp, client, libVars, svcVars>>
ExpireMeta(n) ==  /\ n \in DOMAIN store.meta
                  /\ store' = [store EXCEPT !.meta = Del(@, {n})]
                  /\ UNCHANGED <<redisUp, client, libVars, svcVars>>
ExpireRegion(k) == /\ k \in DOMAIN store.region
                   /\ store' = [store EXCEPT !.region = Del(@, {k})]
                   /\ UNCHANGED <<redisUp, client, libVars, svcVars>>

Next ==
    \/ \E i \in ParserIds, force \in BOOLEAN, f \in LoadFaults : Load(i, force, f)
    \/ \E i \in ParserIds, c \in Chromosomes, pos \in Positions, flt \in BOOLEAN :
          PointQuery(i, c, pos, flt)
    \/ \E i \in ParserIds, c \in Chromosomes, r \in QueryRanges, f \in RegionFaults :
          RangeQuery(i, c, r[1], r[2], f)
    \/ \E i \in ParserIds, c \in Chromosomes, q \in NearQueries, f \in RegionFaults :
          NearQuery(i, c, q[1], q[2], f)
    \/ \E n \in LibraryCatalogs, flt \in BOOLEAN : Invalidate(n, flt)
    \/ RedisDown
    \/ RedisBack
    \/ \E n \in LibraryCatalogs : ExpireIndex(n)
    \/ \E n \in LibraryCatalogs : ExpireMeta(n)
    \/ \E k \in DOMAIN store.region : ExpireRegion(k)

Spec == Init /\ [][Next]_vars

----------------------------------------------------------------------------
(* Claims about the parser and the gateway (specification Spec)            *)

\* A parser of the same catalog that was built and loaded without a cache.
RefParser ==
    load_bim_file(BIMParser(catalog, catalog, FALSE, FALSE),
                  Gateway(FALSE, FALSE, EmptyStore), "ok", FALSE, NoLoadFaults).parser

\* The lines of the catalog file on chromosome c with a <= position <= b.
LinesIn(c, a, b) ==
    SelectSeq(FileLines(catalog),
              LAMBDA l : l.chromosome = c /\ l.position >= a /\ l.position <= b)

\* A returned table row as the line of the file it was read from.
AsLine(row) == [row EXCEPT !.chromosome = Str(@)]

\* C1: every point query and range query on a loaded parser returns what a
\* parser without cache returns, whatever the cache did before or does
\* during the query.
C1_CacheNeverChangesResults ==
    /\ (last.op = "point" /\ parsers[last.who].index_loaded) =>
          /\ ~last.raised
          /\ last.val = get_snp_at_position(RefParser, Gw, last.chromosome,
                                            last.position, FALSE).val
    /\ (last.op = "range" /\ parsers[last.who].index_loaded) =>
          /\ ~last.raised
          /\ last.val = get_snps_in_region(RefParser, Gw, last.chromosome,
                                           last.start, last.end, NoRegionFaults).val

\* C2: when a point query on a loaded parser is answered by the cache, the
\* in-memory point map holds the same record under that key; a key the map
\* does not hold is not answered by the cache.
C2_CacheSourceEquivalence ==
    (last.op = "point" /\ parsers[last.who].index_loaded /\ last.cached # Nil) =>
        LET key == <<last.chromosome, last.position>>
            idx == parsers[last.who].snp_index
        IN  key \in DOMAIN idx /\ last.cached = Some(idx[key])

\* What a gateway method hands back when it gave up: the miss of its kind,
\* and no exception.
Missed(r, miss) == r.val = miss /\ ~r.raised

\* C3: with the cache unreachable, or with the cache call raising, every
\* gateway method returns normally and reports the miss of its kind; with the
\* cache unreachable a write and the invalidation leave the keys as they
\* were; no parser call made meanwhile raises.
C3_GatewayBestEffort ==
    /\ \A flt \in BOOLEAN, n \in LibraryCatalogs :
          (~is_connected(Gw) \/ flt) =>
             /\ Missed(cache_index_exists(Gw, n, flt), FALSE)
             /\ Missed(cache_index(Gw, n, RefParser.snp_index,
                                   Some([dataset_name |-> n]), flt), Nil)
             /\ Missed(get_cached_metadata(Gw, n, flt), Nil)
             /\ Missed(invalidate_dataset(Gw, n, flt), Nil)
             /\ \A c \in Chromosomes :
                   /\ \A pos \in Positions :
                         Missed(get_cached_snp(Gw, n, c, pos, flt), Nil)
                   /\ \A r \in QueryRanges :
                         /\ Missed(get_cached_region(Gw, n, c, r[1], r[2], flt), Nil)
                         /\ Missed(cache_region(Gw, n, c, r[1], r[2],
                                      Scan(RefParser.snp_data[1], c, r[1], r[2]),
                                      flt), Nil)
    /\ \A n \in LibraryCatalogs :
          ~is_connected(Gw) =>
             /\ cache_index(Gw, n, RefParser.snp_index,
                            Some([dataset_name |-> n]), FALSE).store = store
             /\ invalidate_dataset(Gw, n, FALSE).store = store
             /\ \A c \in Chromosomes, r \in QueryRanges :
                   cache_region(Gw, n, c, r[1], r[2],
                                Scan(RefParser.snp_data[1], c, r[1], r[2]),
                                FALSE).store = store
             /\ \A i \in ParserIds : cache_index_of(parsers[i], Gw, FALSE) = store
    /\ (last.op = "invalidate" /\ last.failed) => (~last.raised /\ ~last.changed)
    /\ last.op \in {"load", "point", "range", "near"} => ~last.raised

\* An invalidation was called while the cache was unreachable or its call
\* raised, with keys of that catalog stored.
C3_Witness ==
    /\ last.op = "invalidate" /\ last.failed
    /\ last.name \in DOMAIN store.index

\* C4: a parser whose loaded flag is set has an index entry for every row of
\* its table.
C4_LoadedIndexCoversTable ==
    \A i \in ParserIds :
        (parsers[i].index_loaded /\ parsers[i].snp_data # Nil) =>
            \A k \in 1..Len(parsers[i].snp_data[1]) :
                IndexKey(parsers[i].snp_data[1][k]) \in DOMAIN parsers[i].snp_index

\* C5: a range query on a loaded parser returns exactly the lines of the
\* catalog on that chromosome with start <= position <= end, each once.
C5_RangeQueryExact ==
    (last.op = "range" /\ parsers[last.who].index_loaded
        /\ parsers[last.who].snp_data # Nil) =>
        LET want == LinesIn(last.chromosome, last.start, last.end)
            got == [k \in 1..Len(last.val) |-> AsLine(last.val[k])]
        IN  \A l \in {want[k] : k \in 1..Len(want)} \cup {got[k] : k \in 1..Len(got)} :
                Cardinality({k \in 1..Len(want) : want[k] = l})
                    = Cardinality({k \in 1..Len(got) : got[k] = l})

\* C6: a near-position query returns what the range query over
\* [position - window, position + window] returns; on the catalog with
\* records at 100 and 900 of chromosome "1", the query ("1", 500, 1000)
\* returns both records and ("1", 500, 300) returns none.
C6_NearPositionScenario ==
    (last.op = "near" /\ parsers[last.who].index_loaded
        /\ parsers[last.who].snp_data # Nil) =>
        /\ last.val = get_snps_in_region(parsers[last.who], Gw, last.chromosome,
                                         last.position - last.window,
                                         last.position + last.window,
                                         NoRegionFaults).val
        /\ (catalog = "maize" /\ last.chromosome = "1" /\ last.position = 500) =>
              /\ last.window = 1000 =>
                    {r.snp_id : r \in {last.val[k] : k \in 1..Len(last.val)}}
                        = {"rs1", "rs2"}
              /\ last.window = 300 => last.val = << >>

\* C7: a load of a catalog that was loaded before leaves a point index with
\* the keys and records of the first load: on the same parser (forced or
\* not), and on any two loaded parsers of the catalog.
C7_LoadIdempotent ==
    /\ (last.op = "load" /\ last.was_loaded /\ ~last.raised) =>
          parsers[last.who].snp_index = last.prev_index
    /\ \A i, j \in ParserIds :
          (parsers[i].index_loaded /\ parsers[j].index_loaded) =>
              parsers[i].snp_index = parsers[j].snp_index

----------------------------------------------------------------------------
(* services/dataset_manager.py: DatasetManager                             *)

\* str.lower() on the names, display names and words of this model.
Lower(s) ==
    CASE s = "Rice"  -> "rice"
      [] s = "MAIZE" -> "maize"
      [] s = "CORN"  -> "corn"
      [] s = "Maize (Corn)" -> "maize (corn)"
      [] s = "Millet"   -> "millet"
      [] s = "Chickpea" -> "chickpea"
      [] s = "Soybean"  -> "soybean"
      [] s = "Cotton"   -> "cotton"
      [] OTHER       -> s

\* str.title() on the lower-case names of this model.
Title(s) ==
    CASE s = "wheat"  -> "Wheat"
      [] s = "all"    -> "All"
      [] s = "rice"   -> "Rice"
      [] s = "maize"  -> "Maize"
      [] s = "cotton" -> "Cotton"
      [] OTHER        -> s

\* PLANT_CATEGORIES, in the dict's order.
PLANT_CATEGORIES ==
    << [category |-> "cereals",     plants |-> <<"maize", "rice", "millet">>],
       [category |-> "legumes",     plants |-> <<"chikpea", "soyabean">>],
       [category |-> "fiber_crops", plants |-> <<"cotton">>],
       [category |-> "all",         plants |-> <<"maize", "rice", "millet",
                                                 "chikpea", "soyabean", "cotton">>] >>

\* PLANT_DISPLAY_NAMES, in the dict's order: (name, display name).
PLANT_DISPLAY_NAMES ==
    << <<"maize", "Maize (Corn)">>, <<"rice", "Rice">>, <<"millet", "Millet">>,
       <<"chikpea", "Chickpea">>, <<"soyabean", "Soybean">>,
       <<"cotton", "Cotton">> >>

\* PLANT_TYPES, in the dict's order: (name, plant type).
PLANT_TYPES ==
    << <<"maize", "cereal">>, <<"rice", "cereal">>, <<"millet", "cereal">>,
       <<"chikpea", "legume">>, <<"soyabean", "legume">>,
       <<"cotton", "fiber_crop">> >>

\* plant_variations of detect_plant_from_text, in the dict's order.
plant_variations ==
    << <<"corn", "maize">>, <<"chickpea", "chikpea">>, <<"chick pea", "chikpea">>,
       <<"soybean", "soyabean">>, <<"soy bean", "soyabean">> >>

\* The elements of a sequence.
Range(seq) == {seq[i] : i \in 1..Len(seq)}

\* The element of seq at the least of the indices hits, as an Optional: what
\* a loop over seq that returns at its first hit returns.
First(seq, hits) ==
    IF hits = {} THEN Nil
    ELSE Some(seq[CHOOSE i \in hits : \A j \in hits : i <= j])

\* dict.get(key, default) of a table of (key, value) pairs.
Get(table, key, default) ==
    LET e == First(table, {i \in DOMAIN table : table[i][1] = key})
    IN  IF e = Nil THEN default ELSE e[1][2]

\* _get_category that goes on to the last category listing the plant.
get_category_last_listed(plant_name) ==
    LET hits == {i \in DOMAIN PLANT_CATEGORIES :
                    plant_name \in Range(PLANT_CATEGORIES[i].plants)}
    IN  IF hits = {} THEN "other"
        ELSE PLANT_CATEGORIES[CHOOSE i \in hits : \A j \in hits : j <= i].category

\* _get_category
get_category(plant_name) ==
    LET c == First(PLANT_CATEGORIES, {i \in DOMAIN PLANT_CATEGORIES :
                                      plant_name \in Range(PLANT_CATEGORIES[i].plants)})
    IN  IF c = Nil THEN "other" ELSE c[1].category

\* The DatasetInfo _discover_datasets makes of one file, named by its stem.
DatasetInfo(bim_file) ==
    LET plant_name == Lower(bim_file)
    IN  [name |-> plant_name, file_path |-> bim_file,
         category |-> get_category(plant_name),
         plant_type |-> Get(PLANT_TYPES, plant_name, "unknown"),
         display_name |-> Get(PLANT_DISPLAY_NAMES, plant_name, Title(plant_name))]

\* _discover_datasets: one entry per *.bim file, in the order glob yields them.
discover_datasets(bim_files) ==
    [i \in 1..Len(bim_files) |-> DatasetInfo(bim_files[i])]

\* get_dataset
get_dataset(ds, name) == First(ds, {i \in DOMAIN ds : ds[i].name = Lower(name)})

\* is_dataset_available
is_dataset_available(ds, name) == get_dataset(ds, name) # Nil

\* get_datasets_by_category
get_datasets_by_category(ds, category) ==
    IF category = "all" THEN ds
    ELSE LET e == First(PLANT_CATEGORIES, {i \in DOMAIN PLANT_CATEGORIES :
                                          PLANT_CATEGORIES[i].category = category})
             plants == IF e = Nil THEN << >> ELSE e[1].plants
             present == SelectSeq(plants, LAMBDA p : is_dataset_available(ds, p))
         IN  [i \in 1..Len(present) |-> get_dataset(ds, present[i])[1]]

\* detect_plant_from_text without the loop over plant_variations.
detect_plant_from_text_names_only(text) ==
    LET text_lower == {Lower(w) : w \in text}
        exact == First(PLANT_DISPLAY_NAMES,
                       {i \in DOMAIN PLANT_DISPLAY_NAMES :
                           \/ PLANT_DISPLAY_NAMES[i][1] \in text_lower
                           \/ Lower(PLANT_DISPLAY_NAMES[i][2]) \in text_lower})
    IN  IF exact # Nil THEN Some(exact[1][1]) ELSE Nil

\* detect_plant_from_text.  A text is the set of the words of the two tables
\* it contains as substrings, in its own letter case; text.lower() lowers them.
detect_plant_from_text(text) ==
    LET text_lower == {Lower(w) : w \in text}
        exact == First(PLANT_DISPLAY_NAMES,
                       {i \in DOMAIN PLANT_DISPLAY_NAMES :
                           \/ PLANT_DISPLAY_NAMES[i][1] \in text_lower
                           \/ Lower(PLANT_DISPLAY_NAMES[i][2]) \in text_lower})
        variation == First(plant_variations,
                           {i \in DOMAIN plant_variations :
                               plant_variations[i][1] \in text_lower})
    IN  IF exact # Nil THEN Some(exact[1][1])
        ELSE IF variation # Nil THEN Some(variation[1][2])
        ELSE Nil

----------------------------------------------------------------------------
(* main.py: the globals, lifespan and dataset selection                    *)

DEFAULT_DATASET == "maize"
REDIS_ENABLED == TRUE
DefaultWindow == 1000

\* _detect_dataset_from_request with the text looked at first.
detect_dataset_from_request_text_first(ds, request_text, dataset_name, category) ==
    LET detected == detect_plant_from_text(request_text)
        byCategory == IF category = Nil THEN << >>
                      ELSE get_datasets_by_category(ds, category[1])
    IN  IF detected # Nil THEN detected
        ELSE IF dataset_name # Nil /\ is_dataset_available(ds, dataset_name[1])
        THEN Some(Lower(dataset_name[1]))
        ELSE IF byCategory # << >> THEN Some(byCategory[1].name)
        ELSE Nil

\* _detect_dataset_from_request that ends with "return config.DEFAULT_DATASET"
\* where the code returns None.
detect_dataset_from_request_or_default(ds, request_text, dataset_name, category) ==
    LET byCategory == IF category = Nil THEN << >>
                      ELSE get_datasets_by_category(ds, category[1])
        detected == detect_plant_from_text(request_text)
    IN  IF dataset_name # Nil /\ is_dataset_available(ds, dataset_name[1])
        THEN Some(Lower(dataset_name[1]))
        ELSE IF byCategory # << >> THEN Some(byCategory[1].name)
        ELSE IF detected # Nil THEN detected
        ELSE Some(DEFAULT_DATASET)

\* _detect_dataset_from_request.  dataset_manager is never None: the
\* constructor of DatasetManager does not raise.
detect_dataset_from_request(ds, request_text, dataset_name, category) ==
    LET byCategory == IF category = Nil THEN << >>
                      ELSE get_datasets_by_category(ds, category[1])
        detected == detect_plant_from_text(request_text)
    IN  IF dataset_name # Nil /\ is_dataset_available(ds, dataset_name[1])
        THEN Some(Lower(dataset_name[1]))
        ELSE IF byCategory # << >> THEN Some(byCategory[1].name)
        ELSE IF detected # Nil THEN detected
        ELSE Nil

\* What _get_or_load_dataset leaves behind: the parser it returns, the two
\* globals, the server's keys, the name it resolved, the files it read and
\* whether the load of a new parser raised.
Selected(parser, active, name, st, target, read, failed) ==
    [parser |-> parser, bim_parser |-> active, current_dataset_name |-> name,
     store |-> st, target |-> target, read |-> read, failed |-> failed]

\* "if not target_dataset_name or target_dataset_name == current_dataset_name"
\* without its second half.
UseCurrentNever(target, current) == target = Nil

\* "if not target_dataset_name or target_dataset_name == current_dataset_name"
UseCurrent(target, current) == target = Nil \/ target = current

\* Python's "a or b" on two Optionals.
Or(a, b) == IF a # Nil THEN a ELSE b

\* _get_or_load_dataset with "bim_parser = new_parser" and
\* "current_dataset_name = target_dataset_name" moved before the load.
SwitchedToBeforeLoad(target, file, r) ==
    IF r.raised
    THEN Selected(bim_parser, Some(r.parser), target, r.store, target, {}, TRUE)
    ELSE Selected(Some(r.parser), Some(r.parser), target, r.store, target,
                  IF r.read THEN {file} ELSE {}, FALSE)

\* _get_or_load_dataset, "Load the requested dataset": what follows
\* new_parser.load_bim_file(), r being what the load left behind.
SwitchedTo(target, file, r) ==
    IF r.raised
    THEN Selected(bim_parser, bim_parser, current_dataset_name, r.store, target,
                  {}, TRUE)
    ELSE Selected(Some(r.parser), Some(r.parser), target, r.store, target,
                  IF r.read THEN {file} ELSE {}, FALSE)

\* _get_or_load_dataset from "Determine which dataset to use" on, wanted
\* being "detected_name or dataset_name".
SelectDataset(wanted) ==
    LET dataset_info == IF wanted # Nil THEN get_dataset(datasets, wanted[1]) ELSE Nil
        target == IF dataset_info # Nil THEN Some(dataset_info[1].name) ELSE Nil
        file == dataset_info[1].file_path
        current == Selected(bim_parser, bim_parser, current_dataset_name, store,
                            target, {}, FALSE)
    IN  IF UseCurrent(target, current_dataset_name) THEN current
        ELSE IF fileStatus[file] = "missing" THEN current
        ELSE SwitchedTo(target, file,
                        load_bim_file(BIMParser(file, target[1], hasCache,
                                                REDIS_ENABLED /\ hasCache),
                                      Gateway(client, redisUp, store),
                                      fileStatus[file], FALSE, NoLoadFaults))

\* _get_or_load_dataset
get_or_load_dataset(dataset_name, category, auto_detect_text) ==
    SelectDataset(Or(detect_dataset_from_request(datasets, auto_detect_text,
                                                 dataset_name, category),
                     dataset_name))

\* lifespan, "Pre-cache all datasets into Redis": the keys of the server
\* after the loop has gone through ds[i..].
RECURSIVE PreCache(_, _, _)
PreCache(ds, i, st) ==
    IF i > Len(ds) THEN st
    ELSE LET gw == Gateway(TRUE, redisUp, st)
         IN  IF cache_index_exists(gw, ds[i].name, FALSE).val
             THEN PreCache(ds, i + 1, st)
             ELSE PreCache(ds, i + 1,
                           load_bim_file(BIMParser(ds[i].file_path, ds[i].name,
                                                   TRUE, TRUE),
                                         gw, fileStatus[ds[i].file_path],
                                         FALSE, NoLoadFaults).store)

\* suggest_gene_edits, "Step 3: Identify affected SNPs using BIM parser":
\* one find_snps_near_position per edit, on chromosome "1"; nearby_snps[:5].
RECURSIVE NearbySnps(_, _, _, _)
NearbySnps(parser, positions, i, st) ==
    IF i > Len(positions) THEN [val |-> << >>, store |-> st]
    ELSE LET r == find_snps_near_position(parser, Gateway(client, redisUp, st), "1",
                                          positions[i], DefaultWindow, NoRegionFaults)
             rest == NearbySnps(parser, positions, i + 1, r.store)
         IN  [val |-> <<SubSeq(r.val, 1, IF Len(r.val) < 5 THEN Len(r.val) ELSE 5)>>
                      \o rest.val,
              store |-> rest.store]

----------------------------------------------------------------------------
(* Service level: one process, its startup and its requests                *)

ServiceCatalogs == {"maize", "rice", "cotton"}

\* The states of the data directory the process may start in.
FileWorlds ==
    {f \in [ServiceCatalogs -> {"ok", "missing", "malformed"}] :
        /\ f["rice"] = "ok"
        /\ f["cotton"] # "missing"
        /\ f["maize"] = "ok" \/ f["cotton"] = "ok"}

\* The orders in which glob may yield the files.
GlobOrders == {<<"cotton", "maize", "rice">>, <<"rice", "maize", "cotton">>}

\* The fields of the requests.
RequestNames == {Nil, Some("Rice"), Some("wheat"), Some("maize")}
RequestCategories == {Nil, Some("fiber_crops"), Some("all")}
RequestTexts == {{}, {"corn"}, {"millet"}}
EditTargets == {<<110>>}

InitService ==
    /\ redisUp \in BOOLEAN
    /\ client = FALSE
    /\ store = EmptyStore
    /\ catalog = DEFAULT_DATASET
    /\ parsers = [i \in ParserIds |-> BIMParser(catalog, catalog, TRUE, TRUE)]
    /\ last = NoOp
    /\ phase = "boot"
    /\ fileStatus \in FileWorlds
    /\ datasets = << >>
    /\ hasCache = FALSE
    /\ bim_parser = Nil
    /\ current_dataset_name = Nil
    /\ loadedEver = {}
    /\ req = NoReq
    /\ oracle_loaded = NotLoaded

\* A parser whose load_bim_file has run to its end.
LoadCompleted(p) == p.index_loaded /\ p.snp_data # Nil

\* The catalogs that have been the active one with a completed load.
EverLoaded(active) ==
    IF active # Nil /\ LoadCompleted(active[1])
    THEN loadedEver \cup {active[1].dataset_name}
    ELSE loadedEver

\* lifespan, up to the yield.  The handlers run only after it.
Startup(order) ==
    /\ phase = "boot"
    /\ \E ds \in {discover_datasets(
                     SelectSeq(order, LAMBDA n : fileStatus[n] # "missing"))} :
       \E st \in {IF redisUp THEN PreCache(ds, 1, store) ELSE store} :
       \E dataset_info \in {get_dataset(ds, DEFAULT_DATASET)} :
       \E name \in {IF dataset_info # Nil THEN dataset_info[1].name
                    ELSE DEFAULT_DATASET} :
       \E file \in {IF dataset_info # Nil THEN dataset_info[1].file_path
                    ELSE "maize"} :
       \E r \in {load_bim_file(BIMParser(file, name, redisUp,
                                         REDIS_ENABLED /\ redisUp),
                               Gateway(redisUp, redisUp, st), fileStatus[file],
                               FALSE, NoLoadFaults)} :
       \E active \in {IF fileStatus[file] # "missing" THEN Some(r.parser) ELSE Nil} :
        /\ phase' = "serving"
        /\ client' = redisUp
        /\ hasCache' = redisUp
        /\ datasets' = ds
        /\ current_dataset_name' = Some(name)
        /\ bim_parser' = active
        /\ store' = IF active # Nil THEN r.store ELSE st
        /\ loadedEver' = EverLoaded(active)
        /\ req' = [kind |-> "startup", status |-> 200,
                   raised |-> active # Nil /\ r.raised]
        /\ UNCHANGED <<redisUp, fileStatus, libVars, oracle_loaded>>

\* What a handler saw and answered.
Served(kind, dataset_name, category, text, sel, status, used, snps) ==
    [kind |-> kind, dataset_name |-> dataset_name, category |-> category,
     text |-> text, status |-> status, target |-> sel.target,
     parser |-> IF sel.parser = Nil THEN Nil
                ELSE Some([dataset_name |-> sel.parser[1].dataset_name,
                           loaded |-> LoadCompleted(sel.parser[1])]),
     used_dataset |-> used, read |-> sel.read,
     failed |-> sel.failed, snps |-> snps,
     used_active |-> sel.current_dataset_name,
     parser_reused |-> sel.parser = bim_parser,
     active_before |-> current_dataset_name, loaded_before |-> loadedEver]

\* POST /api/v1/gene-edit/suggest.  targets are the target positions of the
\* edits the suggestion stage returned.
SuggestRequest(dataset_name, category, text, targets) ==
    /\ phase = "serving"
    /\ \E sel \in {get_or_load_dataset(dataset_name, category, text)} :
       \E n \in {IF sel.parser = Nil THEN [val |-> << >>, store |-> sel.store]
                 ELSE NearbySnps(sel.parser[1], targets, 1, sel.store)} :
        /\ bim_parser' = sel.bim_parser
        /\ current_dataset_name' = sel.current_dataset_name
        /\ store' = n.store
        /\ loadedEver' = EverLoaded(sel.bim_parser)
        /\ req' = Served("suggest", dataset_name, category, text, sel,
                         IF sel.parser = Nil THEN 503 ELSE 200,
                         sel.current_dataset_name, n.val)
        /\ UNCHANGED <<redisUp, client, phase, fileStatus, datasets, hasCache, libVars,
                       oracle_loaded>>

\* GET /api/v1/snps/{chromosome}/{position}?window=&dataset=
SnpInfoRequest(chromosome, position, window, dataset) ==
    /\ phase = "serving"
    /\ \E sel \in {IF dataset # Nil THEN get_or_load_dataset(dataset, Nil, {})
                   ELSE Selected(bim_parser, bim_parser, current_dataset_name,
                                 store, Nil, {}, FALSE)} :
       \E r \in {IF sel.parser = Nil THEN Ret(<< >>, sel.store)
                 ELSE find_snps_near_position(sel.parser[1],
                                              Gateway(client, redisUp, sel.store),
                                              chromosome, position, window,
                                              NoRegionFaults)} :
        /\ bim_parser' = sel.bim_parser
        /\ current_dataset_name' = sel.current_dataset_name
        /\ store' = r.store
        /\ loadedEver' = EverLoaded(sel.bim_parser)
        /\ req' = Served("snp_info", dataset, Nil, {}, sel,
                         IF sel.parser = Nil THEN 503 ELSE 200,
                         IF dataset # Nil THEN dataset
                         ELSE sel.current_dataset_name, <<r.val>>)
        /\ UNCHANGED <<redisUp, client, phase, fileStatus, datasets, hasCache, libVars,
                       oracle_loaded>>

\* The file of the default catalog, missing or unreadable so far, is put in
\* place while the process runs.
FileRepaired ==
    /\ phase = "serving"
    /\ fileStatus[DEFAULT_DATASET] # "ok"
    /\ fileStatus' = [fileStatus EXCEPT ![DEFAULT_DATASET] = "ok"]
    /\ UNCHANGED <<redisUp, client, store, phase, datasets, hasCache, bim_parser,
                   current_dataset_name, loadedEver, req, libVars, oracle_loaded>>

\* One request of either handler.
RequestStep ==
    \/ \E dataset_name \in RequestNames, category \in RequestCategories,
          text \in RequestTexts, targets \in EditTargets :
          SuggestRequest(dataset_name, category, text, targets)
    \/ \E dataset \in RequestNames : SnpInfoRequest("1", 110, DefaultWindow, dataset)

NextService ==
    \/ \E order \in GlobOrders : Startup(order)
    \/ \E dataset_name \in RequestNames, category \in RequestCategories,
          text \in RequestTexts, targets \in EditTargets :
          SuggestRequest(dataset_name, category, text, targets)
    \/ \E dataset \in RequestNames : SnpInfoRequest("1", 110, DefaultWindow, dataset)
    \/ RedisDown
    \/ RedisBack
    \/ ExpireIndex("rice")
    \/ FileRepaired

SpecService == InitService /\ [][NextService]_vars

----------------------------------------------------------------------------
(* Claims about dataset selection and the active catalog (SpecService)     *)

\* The last step was a request handler.
IsRequest == req.kind \in {"suggest", "snp_info"}

\* What each source of a request resolves to, as an available catalog or
\* None: the explicit name, the explicit category, the text.
ByName ==
    IF req.dataset_name # Nil
       /\ \E i \in 1..Len(datasets) : datasets[i].name = Lower(req.dataset_name[1])
    THEN Some(Lower(req.dataset_name[1]))
    ELSE Nil
ByCategory ==
    IF req.category = Nil THEN Nil
    ELSE LET c == req.category[1]
             members == IF c = "all" THEN [i \in 1..Len(datasets) |-> datasets[i].name]
                        ELSE SelectSeq(
                                 IF c = "cereals" THEN <<"maize", "rice", "millet">>
                                 ELSE IF c = "legumes" THEN <<"chikpea", "soyabean">>
                                 ELSE IF c = "fiber_crops" THEN <<"cotton">>
                                 ELSE << >>,
                                 LAMBDA n : \E i \in 1..Len(datasets) :
                                               datasets[i].name = n)
         IN  IF members = << >> THEN Nil ELSE Some(members[1])
ByText ==
    LET d == detect_plant_from_text(req.text)
    IN  IF d # Nil /\ \E i \in 1..Len(datasets) : datasets[i].name = d[1]
        THEN d ELSE Nil

\* The first of three Optionals that is a value, else the fourth.
FirstOf(a, b, c, d) == IF a # Nil THEN a ELSE IF b # Nil THEN b
                       ELSE IF c # Nil THEN c ELSE d

\* The catalog a request resolved: its target, or the one active before it.
Resolved == IF req.target # Nil THEN req.target ELSE req.active_before

\* C8: every request resolves its catalog in the order text auto-detection,
\* explicit name, explicit category, currently loaded catalog: the first of
\* these that names an available catalog is the one chosen.
C8_TextThenNameThenCategory ==
    IsRequest => Resolved = FirstOf(ByText, ByName, ByCategory, req.active_before)

\* C8 (amended): every request resolves its catalog in the order explicit
\* name, explicit category, text auto-detection, currently loaded catalog:
\* the first of these that names an available catalog is the one chosen.
C8_NameThenCategoryThenText ==
    IsRequest => Resolved = FirstOf(ByName, ByCategory, ByText, req.active_before)

\* A request whose name and text name two different available catalogs.
C8_Witness ==
    /\ req.kind = "suggest"
    /\ ByName # Nil /\ ByText # Nil /\ ByName # ByText
    /\ req.target = ByName
    /\ current_dataset_name = ByName

\* C9: the parser a request works with belongs to the catalog named by the
\* active name the request reads, and its load has completed.
C9_NoHalfSwappedCatalog ==
    (IsRequest /\ req.parser # Nil) =>
        /\ Some(req.parser[1].dataset_name) = req.used_active
        /\ req.parser[1].loaded

\* C10: no request reads the file of a catalog that has been loaded before
\* in this process.
C10_BuiltAtMostOncePerProcess ==
    IsRequest => req.read \cap req.loaded_before = {}

\* C10 (amended): a request that resolves to the active catalog, or to none,
\* works with the active parser and reads no file; a request that resolves
\* to another catalog and loads it reads that catalog's file, whether or not
\* the catalog was loaded before.
C10_OnlyActiveCatalogReused ==
    IsRequest =>
        /\ (req.target = Nil \/ req.target = req.active_before) =>
              /\ req.read = {}
              /\ req.parser_reused
        /\ (req.target # Nil /\ req.target # req.active_before /\ ~req.failed) =>
              /\ req.read = {req.target[1]}
              /\ ~req.parser_reused

\* A request swapped back to a catalog loaded earlier and read its file again.
C10_Witness ==
    /\ IsRequest
    /\ req.target # Nil /\ req.target # req.active_before
    /\ req.target[1] \in req.loaded_before
    /\ req.read = {req.target[1]}

\* C20: a request whose explicit dataset name, or explicit category, resolves
\* to no available catalog is rejected with a client error (status 404) and
\* is given no parser of another catalog.
C20_UnresolvedIsRejected ==
    (IsRequest /\ \/ (req.dataset_name # Nil /\ ByName = Nil)
                  \/ (req.category # Nil /\ ByCategory = Nil)) =>
        /\ req.status = 404
        /\ req.parser = Nil

----------------------------------------------------------------------------
(* Python sequences.  A str is the sequence of its characters, and indices *)
(* are Python's: the first element is at 0.                                *)

Min(a, b) == IF a <= b THEN a ELSE b
Max(a, b) == IF a >= b THEN a ELSE b
Abs(x) == IF x < 0 THEN 0 - x ELSE x

\* s[a:b] for 0 <= a
Slice(s, a, b) == SubSeq(s, a + 1, Min(b, Len(s)))

\* s.count(x)
Count(s, x) == Cardinality({i \in 1..Len(s) : s[i] = x})

\* list(range(start, stop, step)) for step > 0
PyRange(start, stop, step) ==
    IF stop <= start THEN << >>
    ELSE [i \in 1..((stop - start + step - 1) \div step) |-> start + (i - 1) * step]

----------------------------------------------------------------------------
(* services/graph_crispr_service.py: GraphCRISPRService                    *)
(* Scores are whole numbers: an efficiency of 75 is 75.0, a confidence of  *)
(* 875 is 0.875.  A draw of np.random.normal is a parameter named noise.   *)

guide_length == 20
step == 3

\* _mock_prediction.  0.4 <= gc_content <= 0.6, gc_content being 0.5 for an
\* empty guide; confidence = min(0.9, 0.5 + efficiency / 200).
graph_mock_prediction(guide_rna, noise) ==
    LET gc == Count(guide_rna, "G") + Count(guide_rna, "C")
        n == Len(guide_rna)
        optimal == n = 0 \/ (4 * n <= 10 * gc /\ 10 * gc <= 6 * n)
        efficiency == Max(0, Min(100, (IF optimal THEN 75 ELSE 50) + noise))
    IN  [efficiency_score |-> efficiency,
         confidence |-> Min(900, 500 + 5 * efficiency)]

\* predict_edit_efficiency: the mock prediction on each of its three paths
\* (model not loaded; "Full model inference not yet implemented"; except).
predict_edit_efficiency(is_loaded, guide_rna, noise) ==
    graph_mock_prediction(guide_rna, noise)

\* _suggest_target_base: bases.remove raises ValueError for a symbol that is
\* none of A, T, G, C (None here).
suggest_target_base(original_base) ==
    LET bases == <<"A", "T", "G", "C">>
        rest == SelectSeq(bases, LAMBDA b : b # original_base)
    IN  IF Len(rest) = Len(bases) THEN Nil ELSE Some(rest[1])

\* One entry of the list suggest_edits builds.  The window at pos is whole, so
\* pos + guide_length // 2 lies inside the sequence.
Suggestion(dna_sequence, pos, prediction, target_base) ==
    [guide_rna |-> Slice(dna_sequence, pos, pos + guide_length),
     efficiency_score |-> prediction.efficiency_score,
     confidence |-> prediction.confidence,
     original_base |-> dna_sequence[pos + guide_length \div 2 + 1],
     target_base |-> target_base,
     target_position |-> pos + guide_length \div 2,
     edit_type |-> "substitution"]

\* suggest_edits without the sort: the entries stay in window order.
Unsorted(suggestions) == suggestions

\* suggestions.sort(key=efficiency_score, reverse=True): a stable sort, so
\* entries of equal score keep their order.
RECURSIVE SortByEfficiency(_)
SortByEfficiency(suggestions) ==
    IF suggestions = << >> THEN << >>
    ELSE LET x == suggestions[Len(suggestions)]
             sorted == SortByEfficiency(SubSeq(suggestions, 1, Len(suggestions) - 1))
             ahead == SelectSeq(sorted, LAMBDA y :
                                   y.efficiency_score >= x.efficiency_score)
             behind == SelectSeq(sorted, LAMBDA y :
                                    y.efficiency_score < x.efficiency_score)
         IN  ahead \o <<x>> \o behind

\* suggestions[:max_suggestions] left out.
TopAll(suggestions, max_suggestions) == suggestions

\* suggestions[:max_suggestions] for max_suggestions >= 0
Top(suggestions, max_suggestions) ==
    SubSeq(suggestions, 1, Min(max_suggestions, Len(suggestions)))

\* The positions the loop of suggest_edits visits.
LoopPositions(dna_sequence, target_region) ==
    LET start == IF target_region # Nil THEN target_region[1][1] ELSE 0
        end == IF target_region # Nil THEN target_region[1][2] ELSE Len(dna_sequence)
    IN  PyRange(start, end - guide_length, step)

\* The loop of suggest_edits from its i-th position on: the suggestions
\* appended, the positions predict_edit_efficiency was called for, and whether
\* an exception ended the loop.
RECURSIVE SuggestLoop(_, _, _, _, _, _, _)
SuggestLoop(is_loaded, dna_sequence, positions, i, min_efficiency, noise, acc) ==
    IF i > Len(positions) THEN acc
    ELSE LET pos == positions[i]
             guide_rna == Slice(dna_sequence, pos, pos + guide_length)
         IN  IF Len(guide_rna) < guide_length
             THEN SuggestLoop(is_loaded, dna_sequence, positions, i + 1,
                              min_efficiency, noise, acc)
             ELSE LET prediction == predict_edit_efficiency(is_loaded, guide_rna,
                                                            noise[pos])
                      seen == [acc EXCEPT !.evaluated = Append(@, pos)]
                      target_base == suggest_target_base(
                                         dna_sequence[pos + guide_length \div 2 + 1])
                  IN  IF prediction.efficiency_score < min_efficiency
                      THEN SuggestLoop(is_loaded, dna_sequence, positions, i + 1,
                                       min_efficiency, noise, seen)
                      ELSE IF target_base = Nil
                      THEN [seen EXCEPT !.raised = TRUE, !.val = << >>]
                      ELSE SuggestLoop(is_loaded, dna_sequence, positions, i + 1,
                                       min_efficiency, noise,
                                       [seen EXCEPT !.val = Append(@,
                                           Suggestion(dna_sequence, pos, prediction,
                                                      target_base[1]))])

\* suggest_edits
suggest_edits(is_loaded, dna_sequence, target_region, max_suggestions, min_efficiency, noise) ==
    LET r == SuggestLoop(is_loaded, dna_sequence,
                         LoopPositions(dna_sequence, target_region), 1,
                         min_efficiency, noise,
                         [val |-> << >>, raised |-> FALSE, evaluated |-> << >>])
    IN  IF r.raised THEN r
        ELSE [r EXCEPT !.val = Top(SortByEfficiency(@), max_suggestions)]

----------------------------------------------------------------------------
(* services/dnabert_service.py: DNABERTService                             *)
(* A score of 312 is 0.312.  One call of predict_sequence_score is given a *)
(* draw: what the model call does when the model is loaded ("ok" or        *)
(* "raise") and the value np.random.normal yields if the mock runs.        *)

\* The score the loaded model computes for a sequence: some fixed function
\* of the sequence, here the share of its symbols that are "A".
model_score(sequence) ==
    IF sequence = << >> THEN 0 ELSE (1000 * Count(sequence, "A")) \div Len(sequence)

\* _mock_prediction: 0.3 + gc_content * 0.3 + length_factor * 0.2 + noise,
\* cut to [0, 1]; the quotients are rounded down to the thousandth.
dnabert_mock_prediction(sequence, noise) ==
    LET n == Len(sequence)
        gc == Count(sequence, "G") + Count(sequence, "C")
        gc_part == IF n = 0 THEN 150 ELSE (300 * gc) \div n
        length_part == (200 * Min(n, 1000)) \div 1000
    IN  Max(0, Min(1000, 300 + gc_part + length_part + noise))

\* predict_sequence_score
predict_sequence_score(is_loaded, sequence, draw) ==
    IF ~is_loaded THEN dnabert_mock_prediction(sequence, draw.noise)
    ELSE IF draw.model = "ok" THEN model_score(sequence)
    ELSE dnabert_mock_prediction(sequence, draw.noise)

\* The sign of np.log2(o / (1 - o)) - np.log2(m / (1 - m)) for scores strictly
\* between 0 and 1: the logarithm of the odds grows with the score.
LogOddsSign(original_score, mutated_score) ==
    IF original_score > mutated_score THEN 1
    ELSE IF original_score < mutated_score THEN -1 ELSE 0

\* validate_mutation with "abs_difference > threshold" as the test.
validate_mutation_above_threshold(is_loaded, original_sequence, mutated_sequence, mutation_position, threshold, draws) ==
    LET original_score == predict_sequence_score(is_loaded, original_sequence,
                                                 draws.original)
        mutated_score == predict_sequence_score(is_loaded, mutated_sequence,
                                                draws.mutated)
        difference == mutated_score - original_score
    IN  [original_score |-> original_score,
         mutated_score |-> mutated_score,
         mutation_position |-> mutation_position,
         difference |-> difference,
         log_odds_ratio |-> IF /\ original_score > 0 /\ original_score < 1000
                               /\ mutated_score > 0 /\ mutated_score < 1000
                            THEN LogOddsSign(original_score, mutated_score)
                            ELSE 0,
         validation_passed |-> Abs(difference) > threshold]

\* validate_mutation.  log_odds_ratio is kept as its sign.
validate_mutation(is_loaded, original_sequence, mutated_sequence, mutation_position, threshold, draws) ==
    LET original_score == predict_sequence_score(is_loaded, original_sequence,
                                                 draws.original)
        mutated_score == predict_sequence_score(is_loaded, mutated_sequence,
                                                draws.mutated)
        difference == mutated_score - original_score
    IN  [original_score |-> original_score,
         mutated_score |-> mutated_score,
         mutation_position |-> mutation_position,
         difference |-> difference,
         log_odds_ratio |-> IF /\ original_score > 0 /\ original_score < 1000
                               /\ mutated_score > 0 /\ mutated_score < 1000
                            THEN LogOddsSign(original_score, mutated_score)
                            ELSE 0,
         validation_passed |-> Abs(difference) >= threshold]

\* _apply_edit whose insertion puts target_base after the symbol at pos.
apply_edit_insert_after(sequence, edit) ==
    LET pos == edit.target_position
    IN  IF pos < 0 \/ pos >= Len(sequence) THEN sequence
        ELSE IF edit.edit_type = "substitution"
        THEN IF sequence[pos + 1] = edit.original_base
             THEN Slice(sequence, 0, pos) \o <<edit.target_base>>
                  \o Slice(sequence, pos + 1, Len(sequence))
             ELSE sequence
        ELSE IF edit.edit_type = "insertion"
        THEN Slice(sequence, 0, pos + 1) \o <<edit.target_base>>
             \o Slice(sequence, pos + 1, Len(sequence))
        ELSE IF edit.edit_type = "deletion"
        THEN Slice(sequence, 0, pos) \o Slice(sequence, pos + 1, Len(sequence))
        ELSE sequence

\* _apply_edit
apply_edit(sequence, edit) ==
    LET pos == edit.target_position
    IN  IF pos < 0 \/ pos >= Len(sequence) THEN sequence
        ELSE IF edit.edit_type = "substitution"
        THEN IF sequence[pos + 1] = edit.original_base
             THEN Slice(sequence, 0, pos) \o <<edit.target_base>>
                  \o Slice(sequence, pos + 1, Len(sequence))
             ELSE sequence
        ELSE IF edit.edit_type = "insertion"
        THEN Slice(sequence, 0, pos) \o <<edit.target_base>>
             \o Slice(sequence, pos, Len(sequence))
        ELSE IF edit.edit_type = "deletion"
        THEN Slice(sequence, 0, pos) \o Slice(sequence, pos + 1, Len(sequence))
        ELSE sequence

\* validate_edits with a loop that skips an edit whose application leaves the
\* sequence as it was.
validate_edits_changed_only(is_loaded, original_sequence, edit_suggestions, threshold, draws) ==
    LET changed == {i \in 1..Len(edit_suggestions) :
                       apply_edit(original_sequence, edit_suggestions[i])
                           # original_sequence}
        at(k) == CHOOSE i \in changed : Cardinality({j \in changed : j < i}) = k - 1
    IN  [k \in 1..Cardinality(changed) |->
            validate_mutation(is_loaded, original_sequence,
                              apply_edit(original_sequence, edit_suggestions[at(k)]),
                              edit_suggestions[at(k)].target_position, threshold,
                              draws[at(k)])]

\* validate_edits: draws[i] holds the two draws of the i-th edit.
validate_edits(is_loaded, original_sequence, edit_suggestions, threshold, draws) ==
    [i \in 1..Len(edit_suggestions) |->
        validate_mutation(is_loaded, original_sequence,
                          apply_edit(original_sequence, edit_suggestions[i]),
                          edit_suggestions[i].target_position, threshold, draws[i])]

----------------------------------------------------------------------------
(* Function level: GraphCRISPRService.suggest_edits and                    *)
(* DNABERTService.validate_edits called on their own                       *)

\* "ATCGATCGATCGATCGATCGATCG" and its prefixes of 23 and 20 symbols; twenty
\* "A" followed by "GCGCGC"; and a sequence with an "N" at index 10.
Dna24 == <<
      "A", "T", "C", "G", "A", "T", "C", "G", "A", "T", "C", "G",
      "A", "T", "C", "G", "A", "T", "C", "G", "A", "T", "C", "G" >>
Dna23 == <<
      "A", "T", "C", "G", "A", "T", "C", "G", "A", "T", "C", "G",
      "A", "T", "C", "G", "A", "T", "C", "G", "A", "T", "C" >>
Dna20 == <<
      "A", "T", "C", "G", "A", "T", "C", "G", "A", "T", "C", "G",
      "A", "T", "C", "G", "A", "T", "C", "G" >>
Dna26 == <<
      "A", "A", "A", "A", "A", "A", "A", "A", "A", "A", "A", "A",
      "A", "A", "A", "A", "A", "A", "A", "A", "G", "C", "G", "C",
      "G", "C" >>
DnaN == <<
      "A", "T", "C", "G", "A", "T", "C", "G", "A", "T", "N", "G",
      "A", "T", "C", "G", "A", "T", "C", "G", "A", "T", "C", "G" >>
DnaSequences == {Dna24, Dna23, Dna20, Dna26, DnaN}

\* target_region, max_suggestions, min_efficiency of a call.
TargetRegions == {Nil, Some(<<0, 20>>), Some(<<3, 26>>)}
MaxSuggestions == {1, 2}
MinEfficiencies == {50, 70}

\* The values a draw of np.random.normal takes: for the efficiency (sigma 5
\* or 10) and for the sequence score (sigma 0.05).
EfficiencyNoise == {-30, 0, 5}
ScoreNoise == {-150, 150}

\* The draws one call of predict_sequence_score may meet.
ScoreDraws(is_loaded) ==
    IF is_loaded
    THEN {[noise |-> 0, model |-> "ok"]}
         \cup {[noise |-> n, model |-> "raise"] : n \in ScoreNoise}
    ELSE {[noise |-> n, model |-> "none"] : n \in ScoreNoise}

\* The two draws of one validate_mutation.
MutationDraws(is_loaded) ==
    [original : ScoreDraws(is_loaded), mutated : ScoreDraws(is_loaded)]

\* Edits handed to validate_edits for a sequence: a substitution that fits
\* (original_base is the base at index 4), one whose original_base does not
\* match the base at index 5, one past the end, an insertion and a deletion.
Edit(pos, type, original_base, target_base) ==
    [original_base |-> original_base, target_base |-> target_base,
     target_position |-> pos, edit_type |-> type]
EditFits(sequence) == Edit(4, "substitution", sequence[5], "T")
EditMismatch(sequence) ==
    Edit(5, "substitution", IF sequence[6] = "A" THEN "C" ELSE "A", "G")
EditOutOfRange(sequence) == Edit(Len(sequence) + 6, "substitution", "A", "T")
EditInsertion(sequence) == Edit(2, "insertion", "", "G")
EditDeletion(sequence) == Edit(3, "deletion", sequence[4], "")
EditLists(sequence) ==
    {<< >>, <<EditFits(sequence)>>, <<EditMismatch(sequence)>>,
     <<EditOutOfRange(sequence)>>, <<EditInsertion(sequence)>>,
     <<EditDeletion(sequence)>>,
     <<EditOutOfRange(sequence), EditFits(sequence)>>,
     <<EditMismatch(sequence), EditOutOfRange(sequence)>>,
     <<EditFits(sequence), EditDeletion(sequence)>>}

InitFunctions ==
    /\ redisUp = FALSE
    /\ client = FALSE
    /\ store = EmptyStore
    /\ catalog = DEFAULT_DATASET
    /\ parsers = [i \in ParserIds |-> BIMParser(catalog, catalog, TRUE, TRUE)]
    /\ last = NoOp
    /\ phase = "off"
    /\ fileStatus = [n \in ServiceCatalogs |-> "ok"]
    /\ datasets = << >>
    /\ hasCache = FALSE
    /\ bim_parser = Nil
    /\ current_dataset_name = Nil
    /\ loadedEver = {}
    /\ req = NoReq
    /\ oracle_loaded \in [{"graph_crispr", "dnabert"} -> BOOLEAN]

\* graph_crispr_service.suggest_edits(dna_sequence, target_region,
\* max_suggestions, min_efficiency)
SuggestEdits(dna_sequence, target_region, max_suggestions, min_efficiency) ==
    \E noise \in [Range(LoopPositions(dna_sequence, target_region)) -> EfficiencyNoise] :
    \E r \in {suggest_edits(oracle_loaded.graph_crispr, dna_sequence, target_region,
                            max_suggestions, min_efficiency, noise)} :
        /\ last' = [val |-> r.val, raised |-> r.raised,
                    op |-> "suggest_edits", noise |-> noise,
                    dna_sequence |-> dna_sequence,
                    max_suggestions |-> max_suggestions,
                    target_region |-> target_region,
                    min_efficiency |-> min_efficiency,
                    evaluated |-> r.evaluated]
        /\ UNCHANGED <<redisUp, client, store, parsers, catalog, svcVars>>

\* dnabert_service.validate_edits(original_sequence, edit_suggestions, threshold)
ValidateEdits(original_sequence, edit_suggestions, threshold) ==
    \E draws \in [1..Len(edit_suggestions) -> MutationDraws(oracle_loaded.dnabert)] :
        /\ last' = [val |-> validate_edits(oracle_loaded.dnabert, original_sequence,
                                           edit_suggestions, threshold, draws),
                    raised |-> FALSE,
                    op |-> "validate_edits", original_sequence |-> original_sequence,
                    threshold |-> threshold, edit_suggestions |-> edit_suggestions]
        /\ UNCHANGED <<redisUp, client, store, parsers, catalog, svcVars>>

\* The sequences and thresholds validate_mutation is called with on its own:
\* the loaded model scores them 1.0, 0.0 and 0.5.
ShortSequences == {<<"A", "A">>, <<"T", "T">>, <<"A", "T">>}
Thresholds == {100, 500}

\* dnabert_service.validate_mutation(original_sequence, mutated_sequence,
\* mutation_position, threshold)
ValidateMutation(original_sequence, mutated_sequence, mutation_position, threshold) ==
    \E draws \in MutationDraws(oracle_loaded.dnabert) :
        /\ last' = [val |-> validate_mutation(oracle_loaded.dnabert,
                                              original_sequence, mutated_sequence,
                                              mutation_position, threshold, draws),
                    raised |-> FALSE,
                    op |-> "validate_mutation",
                    original_sequence |-> original_sequence,
                    mutated_sequence |-> mutated_sequence,
                    threshold |-> threshold]
        /\ UNCHANGED <<redisUp, client, store, parsers, catalog, svcVars>>

\* The substrings a text is looked at for, and the texts: a text is the set of
\* these substrings it contains, in the letter case it has them.
DetectWords == {"corn", "CORN", "rice", "cotton", "maize"}
DetectTexts == SUBSET DetectWords

\* dataset_manager.detect_plant_from_text(text)
DetectPlantFromText(text) ==
    /\ last' = [text |-> text, val |-> detect_plant_from_text(text),
                raised |-> FALSE, op |-> "detect_plant_from_text"]
    /\ UNCHANGED <<redisUp, client, store, parsers, catalog, svcVars>>

\* The stems of the *.bim files of a data directory, and the lists glob can
\* yield: one or two files.
BimFileStems == {"maize", "Rice", "wheat", "all"}
BimFileLists ==
    {<<a>> : a \in BimFileStems} \cup
    {s \in BimFileStems \X BimFileStems : s[1] # s[2]}

\* DatasetManager(data_dir): _discover_datasets over the files of the directory
DiscoverDatasets(bim_files) ==
    /\ last' = [val |-> discover_datasets(bim_files), raised |-> FALSE,
                op |-> "discover_datasets", bim_files |-> bim_files]
    /\ UNCHANGED <<redisUp, client, store, parsers, catalog, svcVars>>

\* The sequences and edits _apply_edit is called with on its own: every
\* position from one before the sequence to one past its last symbol, the
\* three edit types and one the code does not know.
EditedSequences == {<<"A", "T", "C">>, <<"T", "T">>}
EditPositions == -1..3
EditTypes == {"substitution", "insertion", "deletion", "inversion"}
SingleEdits == {Edit(pos, type, original_base, "G") :
                   pos \in EditPositions, type \in EditTypes,
                   original_base \in {"A", "T"}}

\* dnabert_service._apply_edit(sequence, edit)
ApplyEdit(sequence, edit) ==
    /\ last' = [val |-> apply_edit(sequence, edit), raised |-> FALSE,
                op |-> "apply_edit", sequence |-> sequence, edit |-> edit]
    /\ UNCHANGED <<redisUp, client, store, parsers, catalog, svcVars>>

\* The categories asked for.
Categories == {"cereals", "fiber_crops", "other", "all"}

\* DatasetManager(data_dir).get_datasets_by_category(category)
GetDatasetsByCategory(bim_files, category) ==
    /\ last' = [val |-> get_datasets_by_category(discover_datasets(bim_files),
                                                 category),
                raised |-> FALSE, op |-> "get_datasets_by_category",
                category |-> category, bim_files |-> bim_files]
    /\ UNCHANGED <<redisUp, client, store, parsers, catalog, svcVars>>

NextFunctions ==
    \/ \E dna_sequence \in DnaSequences, target_region \in TargetRegions,
          max_suggestions \in MaxSuggestions, min_efficiency \in MinEfficiencies :
          SuggestEdits(dna_sequence, target_region, max_suggestions, min_efficiency)
    \/ \E edit_suggestions \in EditLists(Dna24) :
          ValidateEdits(Dna24, edit_suggestions, 100)
    \/ \E original_sequence \in ShortSequences, mutated_sequence \in ShortSequences,
          threshold \in Thresholds :
          ValidateMutation(original_sequence, mutated_sequence, 0, threshold)
    \/ \E sequence \in EditedSequences, edit \in SingleEdits :
          ApplyEdit(sequence, edit)
    \/ \E text \in DetectTexts : DetectPlantFromText(text)
    \/ \E bim_files \in BimFileLists : DiscoverDatasets(bim_files)
    \/ \E bim_files \in BimFileLists, category \in Categories :
          GetDatasetsByCategory(bim_files, category)

SpecFunctions == InitFunctions /\ [][NextFunctions]_vars

----------------------------------------------------------------------------
(* Claims about suggest_edits                                              *)

\* The call of suggest_edits last made returned (no exception left it).
Suggested == last.op = "suggest_edits" /\ ~last.raised

\* C13: for every sequence, region, max_suggestions and min_efficiency a
\* returned suggestion list has at most max_suggestions entries, and every
\* entry's efficiency_score is at least min_efficiency.
C13_AtMostMaxAndEfficient ==
    Suggested =>
        /\ Len(last.val) <= last.max_suggestions
        /\ \A i \in 1..Len(last.val) :
               last.val[i].efficiency_score >= last.min_efficiency

\* A call that evaluated two windows, dropped one of them and returned
\* max_suggestions = 1 entries.
C13_Witness ==
    /\ Suggested
    /\ last.max_suggestions = 1
    /\ Len(last.val) = 1
    /\ Len(last.evaluated) = 2

\* The offsets start, start + 3, ... whose 20 symbols lie inside the region
\* and inside the sequence, in ascending order.
WindowOffsets(dna_sequence, target_region) ==
    LET start == IF target_region # Nil THEN target_region[1][1] ELSE 0
        end == IF target_region # Nil THEN target_region[1][2] ELSE Len(dna_sequence)
        fits == {o \in start..end :
                    /\ (o - start) % step = 0
                    /\ o + guide_length <= end
                    /\ o + guide_length <= Len(dna_sequence)}
    IN  [k \in 1..Cardinality(fits) |->
            CHOOSE o \in fits : Cardinality({x \in fits : x < o}) = k - 1]

\* C14: a returned call has evaluated exactly the windows at the offsets
\* start, start + 3, start + 6, ... with offset + 20 <= end (end being the
\* sequence length when no region is given), and no other window.
C14_EvaluatesEveryFullWindow ==
    Suggested =>
        last.evaluated = WindowOffsets(last.dna_sequence, last.target_region)

----------------------------------------------------------------------------
(* Claims about validate_edits                                             *)

\* The call last made is a call of validate_edits.
Validated == last.op = "validate_edits"

\* The i-th edit of the call last made leaves the sequence as it was.
LeavesUnchanged(i) ==
    apply_edit(last.original_sequence, last.edit_suggestions[i])
        = last.original_sequence

\* C15: validate_edits returns one result per edit, in the order of the edits:
\* the result list is as long as the edit list and the i-th result's
\* mutation_position is the i-th edit's target_position, also for edits that
\* are out of range or whose original_base does not match.
C15_OneResultPerEditInOrder ==
    Validated =>
        /\ ~last.raised
        /\ Len(last.val) = Len(last.edit_suggestions)
        /\ \A i \in 1..Len(last.val) :
               last.val[i].mutation_position
                   = last.edit_suggestions[i].target_position

\* A call with an edit whose original_base does not match followed by one
\* that is out of range.
C15_Witness ==
    /\ Validated
    /\ last.edit_suggestions
           = <<EditMismatch(last.original_sequence),
               EditOutOfRange(last.original_sequence)>>
    /\ LeavesUnchanged(1) /\ LeavesUnchanged(2)
    /\ Len(last.val) = 2

\* C16: an edit that leaves the sequence unchanged gets a result with
\* difference = 0 (mutated_score equal to original_score), and no error.
C16_UnchangedSequenceZeroDifference ==
    Validated =>
        /\ ~last.raised
        /\ \A i \in 1..Len(last.val) :
               LeavesUnchanged(i) =>
                   /\ last.val[i].difference = 0
                   /\ last.val[i].mutated_score = last.val[i].original_score

\* The arguments of the call last made.
Inputs ==
    IF last.op = "suggest_edits"
    THEN <<last.op, last.dna_sequence, last.target_region, last.max_suggestions,
           last.min_efficiency>>
    ELSE IF last.op = "validate_edits"
    THEN <<last.op, last.original_sequence, last.edit_suggestions, last.threshold>>
    ELSE <<last.op>>

\* The model the call last made would ask is not loaded.
OracleUnavailable ==
    \/ last.op = "suggest_edits" /\ ~oracle_loaded.graph_crispr
    \/ last.op = "validate_edits" /\ ~oracle_loaded.dnabert

\* C17: with the model not loaded, a call of suggest_edits or validate_edits
\* that follows a call with the same arguments returns the same scores,
\* confidences and result list.
C17_SubstituteDeterministic ==
    [][(OracleUnavailable /\ Inputs' = Inputs) =>
           (last'.val = last.val /\ last'.raised = last.raised)]_vars

----------------------------------------------------------------------------
(* main.py: suggest_gene_edits, stage by stage                             *)

Stages ==
    <<"SelectDataset", "GenerateSuggestions", "ValidateEdits",
      "MapVariantImpacts", "Summarize">>

\* threshold=0.1 of the validate_edits call; abs(...) < 50; abs(...) > 0.2;
\* effect_size > 0.3.
ValidationThreshold == 100
AffectedDistance == 50
CausalDifference == 200
HighImpactEffect == 300

\* SNPChange with a causal candidate needing abs(difference) > 0.5.
SNPChangeCausalAboveHalf(snp, edit, validation) ==
    [chromosome |-> Str(snp.chromosome),
     snp_id |-> snp.snp_id,
     position |-> snp.position,
     original_allele |-> snp.ref_allele,
     new_allele |-> edit.target_base,
     effect_size |-> Abs(validation.difference),
     is_causal_candidate |-> /\ validation.validation_passed
                             /\ Abs(validation.difference) > 500,
     dnabert_score |-> validation.mutated_score]

\* SNPChange(...) of one nearby record.
SNPChange(snp, edit, validation) ==
    [chromosome |-> Str(snp.chromosome),
     snp_id |-> snp.snp_id,
     position |-> snp.position,
     original_allele |-> snp.ref_allele,
     new_allele |-> edit.target_base,
     effect_size |-> Abs(validation.difference),
     is_causal_candidate |-> /\ validation.validation_passed
                             /\ Abs(validation.difference) > CausalDifference,
     dnabert_score |-> validation.mutated_score]

\* "for snp in nearby_snps[:5]: ... if is_affected: snp_changes.append(...)"
\* for one edit, nearby being nearby_snps[:5].
AffectedOf(edit, validation, nearby) ==
    LET affected == SelectSeq(nearby, LAMBDA snp :
                        Abs(snp.position - edit.target_position) < AffectedDistance)
    IN  [k \in 1..Len(affected) |-> SNPChange(affected[k], edit, validation)]

\* The loop over zip(edit_suggestions_raw, validations_raw): the changes each
\* pair contributes, nearby[i] being nearby_snps[:5] of the i-th edit.
Impacts(edits, validations, nearby) ==
    [i \in 1..Min(Len(edits), Len(validations)) |->
        AffectedOf(edits[i], validations[i], nearby[i])]

\* The list a loop of appends leaves: the lists of ls one after the other.
RECURSIVE Flatten(_)
Flatten(ls) ==
    IF ls = << >> THEN << >> ELSE ls[1] \o Flatten(SubSeq(ls, 2, Len(ls)))

\* sum(...) of a list of numbers
RECURSIVE Sum(_)
Sum(xs) == IF xs = << >> THEN 0 ELSE xs[1] + Sum(SubSeq(xs, 2, Len(xs)))

\* "Risk assessment" with its first test against 4 in place of 3.
risk_assessment_above_four(causal_candidates, high_impact_snps) ==
    IF causal_candidates > 4
    THEN "High - Multiple causal candidates identified"
    ELSE IF high_impact_snps > 5
    THEN "Medium - Several high-impact SNPs affected"
    ELSE "Low - Minimal impact expected"

\* "Risk assessment": the label for the two counts.
risk_assessment(causal_candidates, high_impact_snps) ==
    IF causal_candidates > 3
    THEN "High - Multiple causal candidates identified"
    ELSE IF high_impact_snps > 5
    THEN "Medium - Several high-impact SNPs affected"
    ELSE "Low - Minimal impact expected"

\* "Step 4: Generate summary".  The two means are rounded down to a whole
\* thousandth.
EditSummary(snp_changes, edit_suggestions, dnabert_validations) ==
    LET high_impact_snps == SelectSeq(snp_changes, LAMBDA snp :
                                snp.effect_size > HighImpactEffect)
        causal_candidates == SelectSeq(snp_changes, LAMBDA snp :
                                 snp.is_causal_candidate)
    IN  [high_impact_snps |-> Len(high_impact_snps),
         risk_assessment |-> risk_assessment(Len(causal_candidates),
                                             Len(high_impact_snps)),
         total_snps_affected |-> Len(snp_changes),
         causal_candidate_snps |-> causal_candidates,
         trait_prediction_change |->
             IF dnabert_validations = << >> THEN 0
             ELSE Sum([i \in 1..Len(dnabert_validations) |->
                          dnabert_validations[i].difference])
                      \div Len(dnabert_validations),
         overall_confidence |->
             IF edit_suggestions = << >> THEN 0
             ELSE Sum([i \in 1..Len(edit_suggestions) |->
                          edit_suggestions[i].confidence])
                      \div Len(edit_suggestions)]

----------------------------------------------------------------------------
(* Request level: one suggest_gene_edits call at a time, a stage a step    *)

PipelineCatalogs == {"maize", "soyabean"}
PipelineWorlds ==
    {f \in [PipelineCatalogs -> {"ok", "missing"}] : f["soyabean"] = "ok"}
PipelineOrder == <<"maize", "soyabean">>

\* The fields of the requests, and the draws their oracle calls meet.
PipelineNames == {Nil, Some("soyabean")}
PipelineSequences == {Dna24, Dna20, DnaN}
PipelineNoise == {-30, 5}

InitPipeline ==
    /\ redisUp = FALSE
    /\ client = FALSE
    /\ store = EmptyStore
    /\ catalog = DEFAULT_DATASET
    /\ parsers = [i \in ParserIds |-> BIMParser(catalog, catalog, TRUE, TRUE)]
    /\ last = NoOp
    /\ phase = "boot"
    /\ fileStatus \in PipelineWorlds
    /\ datasets = << >>
    /\ hasCache = FALSE
    /\ bim_parser = Nil
    /\ current_dataset_name = Nil
    /\ loadedEver = {}
    /\ req = NoReq
    /\ oracle_loaded \in [{"graph_crispr", "dnabert"} -> BOOLEAN]

\* The request is in the handler: pc is the stage about to run, or the
\* stage that does not return when hung.
InHandler == req.kind = "suggest_gene_edits" /\ req.pc \in Range(Stages)
Running(stage) == InHandler /\ req.pc = stage /\ ~req.hung

\* The handler's locals at its entry.
Entered(dataset_name, dna_sequence, max_suggestions, min_efficiency) ==
    [dataset_name |-> dataset_name, parser |-> Nil, status |-> 0,
     kind |-> "suggest_gene_edits", dna_sequence |-> dna_sequence,
     max_suggestions |-> max_suggestions, min_efficiency |-> min_efficiency,
     edit_suggestions |-> << >>, validations |-> << >>, snp_changes |-> << >>,
     pc |-> "SelectDataset", hung |-> FALSE, trace |-> << >>, outcome |-> << >>,
     impacts |-> << >>, summary |-> Nil]

\* A stage ran to its end: the next one is entered.
Passed(job, stage, next) ==
    [job EXCEPT !.trace = Append(@, stage), !.outcome = Append(@, "ok"),
                !.pc = next]

\* A stage that fails and lets the handler go on to the next stage.
RaisedAndWentOn(job, stage, status) ==
    [job EXCEPT !.trace = Append(@, stage), !.outcome = Append(@, "failed"),
                !.pc = IF stage = "SelectDataset" THEN "GenerateSuggestions"
                       ELSE "ValidateEdits",
                !.status = status]

\* raise HTTPException(status_code=...), or an exception the handler turns
\* into a 500: the handler is left.
Raised(job, stage, status) ==
    [job EXCEPT !.trace = Append(@, stage), !.outcome = Append(@, "failed"),
                !.pc = "Failed", !.status = status]

\* A request arrives; the handler of the one before has returned.
Enter(dataset_name, dna_sequence, max_suggestions, min_efficiency) ==
    /\ phase = "serving"
    /\ ~InHandler
    /\ req' = Entered(dataset_name, dna_sequence, max_suggestions, min_efficiency)
    /\ UNCHANGED <<redisUp, client, store, phase, fileStatus, datasets, hasCache,
                   bim_parser, current_dataset_name, loadedEver, libVars,
                   oracle_loaded>>

\* parser = _get_or_load_dataset(...); if not parser: raise 503
StageSelectDataset ==
    /\ Running("SelectDataset")
    /\ \E sel \in {get_or_load_dataset(req.dataset_name, Nil, {})} :
        /\ bim_parser' = sel.bim_parser
        /\ current_dataset_name' = sel.current_dataset_name
        /\ store' = sel.store
        /\ loadedEver' = EverLoaded(sel.bim_parser)
        /\ req' = IF sel.parser = Nil THEN Raised(req, "SelectDataset", 503)
                  ELSE [Passed(req, "SelectDataset", "GenerateSuggestions")
                           EXCEPT !.parser = sel.parser]
    /\ UNCHANGED <<redisUp, client, phase, fileStatus, datasets, hasCache, libVars,
                   oracle_loaded>>

\* "Step 1: Generate edit suggestions using Graph-CRISPR"
StageGenerateSuggestions ==
    /\ Running("GenerateSuggestions")
    /\ \E noise \in [Range(LoopPositions(req.dna_sequence, Nil)) -> PipelineNoise] :
       \E r \in {suggest_edits(oracle_loaded.graph_crispr, req.dna_sequence, Nil,
                               req.max_suggestions, req.min_efficiency, noise)} :
        req' = IF r.raised THEN Raised(req, "GenerateSuggestions", 500)
               ELSE [Passed(req, "GenerateSuggestions", "ValidateEdits")
                        EXCEPT !.edit_suggestions = r.val]
    /\ UNCHANGED <<redisUp, client, store, phase, fileStatus, datasets, hasCache,
                   bim_parser, current_dataset_name, loadedEver, libVars,
                   oracle_loaded>>

\* "Step 2" of a handler that answers 500 when it has no suggestion to
\* validate.
StageValidateEditsNeedsEdits ==
    /\ Running("ValidateEdits")
    /\ \E draws \in [1..Len(req.edit_suggestions)
                          -> MutationDraws(oracle_loaded.dnabert)] :
        req' = IF req.edit_suggestions = << >>
               THEN Raised(req, "ValidateEdits", 500)
               ELSE [Passed(req, "ValidateEdits", "MapVariantImpacts")
                        EXCEPT !.validations =
                            validate_edits(oracle_loaded.dnabert, req.dna_sequence,
                                           req.edit_suggestions,
                                           ValidationThreshold, draws)]
    /\ UNCHANGED <<redisUp, client, store, phase, fileStatus, datasets, hasCache,
                   bim_parser, current_dataset_name, loadedEver, libVars,
                   oracle_loaded>>

\* "Step 2: Validate with DNABERT": every call of the model returns or raises.
StageValidateEdits ==
    /\ Running("ValidateEdits")
    /\ \E draws \in [1..Len(req.edit_suggestions)
                          -> MutationDraws(oracle_loaded.dnabert)] :
        req' = [Passed(req, "ValidateEdits", "MapVariantImpacts")
                   EXCEPT !.validations =
                       validate_edits(oracle_loaded.dnabert, req.dna_sequence,
                                      req.edit_suggestions, ValidationThreshold,
                                      draws)]
    /\ UNCHANGED <<redisUp, client, store, phase, fileStatus, datasets, hasCache,
                   bim_parser, current_dataset_name, loadedEver, libVars,
                   oracle_loaded>>

\* "Step 2" when a call self.model(...) of the loaded model does not return:
\* predict_sequence_score waits for it without a timeout, and so does the
\* handler, which has no await.
ModelCallNeverReturns ==
    /\ Running("ValidateEdits")
    /\ oracle_loaded.dnabert
    /\ req.edit_suggestions # << >>
    /\ req' = [req EXCEPT !.trace = Append(@, "ValidateEdits"), !.hung = TRUE]
    /\ UNCHANGED <<redisUp, client, store, phase, fileStatus, datasets, hasCache,
                   bim_parser, current_dataset_name, loadedEver, libVars,
                   oracle_loaded>>

\* "Step 3: Identify affected SNPs using BIM parser"
StageMapVariantImpacts ==
    /\ Running("MapVariantImpacts")
    /\ \E n \in {NearbySnps(req.parser[1],
                             [i \in 1..Len(req.edit_suggestions) |->
                                 req.edit_suggestions[i].target_position],
                             1, store)} :
       \E impacts \in {Impacts(req.edit_suggestions, req.validations, n.val)} :
        /\ store' = n.store
        /\ req' = [Passed(req, "MapVariantImpacts", "Summarize")
                      EXCEPT !.impacts = impacts, !.snp_changes = Flatten(impacts)]
    /\ UNCHANGED <<redisUp, client, phase, fileStatus, datasets, hasCache,
                   bim_parser, current_dataset_name, loadedEver, libVars,
                   oracle_loaded>>

\* "Step 4: Generate summary" up to "return response"
StageSummarize ==
    /\ Running("Summarize")
    /\ req' = [Passed(req, "Summarize", "Completed")
                  EXCEPT !.status = 200,
                         !.summary = Some(EditSummary(req.snp_changes,
                                                      req.edit_suggestions,
                                                      req.validations))]
    /\ UNCHANGED <<redisUp, client, store, phase, fileStatus, datasets, hasCache,
                   bim_parser, current_dataset_name, loadedEver, libVars,
                   oracle_loaded>>

\* The steps of the handler once it is entered.
HandlerStep ==
    \/ StageSelectDataset
    \/ StageGenerateSuggestions
    \/ StageValidateEdits
    \/ ModelCallNeverReturns
    \/ StageMapVariantImpacts
    \/ StageSummarize

NextPipeline ==
    \/ Startup(PipelineOrder)
    \/ \E dataset_name \in PipelineNames, dna_sequence \in PipelineSequences,
          max_suggestions \in MaxSuggestions :
          Enter(dataset_name, dna_sequence, max_suggestions, 50)
    \/ HandlerStep

\* The handler runs without an await: once it has its parser, it goes on as
\* long as it has a step to take.
SpecPipeline ==
    /\ InitPipeline
    /\ [][NextPipeline]_vars
    /\ WF_vars(StageGenerateSuggestions)
    /\ WF_vars(StageValidateEdits)
    /\ WF_vars(StageMapVariantImpacts)
    /\ WF_vars(StageSummarize)

----------------------------------------------------------------------------
(* Claims about the request's stages                                       *)

\* req is the record of a suggest_gene_edits call.
IsJob == req.kind = "suggest_gene_edits"

\* s is an initial part of t.
IsPrefix(s, t) == Len(s) <= Len(t) /\ s = SubSeq(t, 1, Len(s))

\* Every stage that has returned so far returned without an exception.
AllPassed == \A i \in 1..Len(req.outcome) : req.outcome[i] = "ok"

\* C11: a request runs the stages SelectDataset, GenerateSuggestions,
\* ValidateEdits, MapVariantImpacts, Summarize in this order, each at most
\* once and only after every earlier stage succeeded; it is Completed exactly
\* when all five succeeded, and Failed exactly when the stage it ran last
\* failed, all stages before that one having succeeded.
C11_StagesInOrderAtMostOnce ==
    IsJob =>
        /\ req.pc \in Range(Stages) \cup {"Completed", "Failed"}
        /\ IsPrefix(req.trace, Stages)
        /\ \A i \in 1..(Len(req.outcome) - 1) : req.outcome[i] = "ok"
        /\ req.pc \in Range(Stages) =>
               /\ AllPassed
               /\ req.pc = Stages[Len(req.outcome) + 1]
               /\ Len(req.trace) = Len(req.outcome) + (IF req.hung THEN 1 ELSE 0)
        /\ req.pc = "Completed" <=> (req.trace = Stages /\ Len(req.outcome) = 5
                                        /\ AllPassed)
        /\ req.pc = "Failed" <=> (~AllPassed /\ Len(req.trace) = Len(req.outcome))

\* A request that failed in its second stage and ran no later stage.
C11_Witness ==
    /\ IsJob
    /\ req.pc = "Failed"
    /\ req.status = 500
    /\ req.trace = <<"SelectDataset", "GenerateSuggestions">>
    /\ req.outcome = <<"ok", "failed">>

\* C12: a request that has come to the stage that asks the sequence-score
\* model reaches a terminal state, whatever the model call does.
C12_OracleCallNeverBlocksRequest ==
    (IsJob /\ req.pc = "ValidateEdits") ~> (IsJob /\ req.pc \in {"Completed", "Failed"})

\* The records of chromosome "1" in the catalog file within DefaultWindow of
\* position t, the (at most) five nearest of them, and the ids of those of
\* the five that lie within AffectedDistance of t.
WithinWindow(name, t) ==
    {r \in Range(FileLines(name)) :
        r.chromosome = "1" /\ Abs(r.position - t) <= DefaultWindow}
FiveNearest(name, t) ==
    {r \in WithinWindow(name, t) :
        Cardinality({q \in WithinWindow(name, t) :
                        Abs(q.position - t) < Abs(r.position - t)}) < 5}
NearestAffected(name, t) ==
    {r.snp_id : r \in {q \in FiveNearest(name, t) :
                          Abs(q.position - t) < AffectedDistance}}

\* C18: once MapVariantImpacts has run, the records reported as affected for a
\* suggestion are exactly those of the five catalog records nearest to its
\* target position (among the records within 1000 units) that lie within 50
\* units of it, and no suggestion has more than five.
C18_FiveNearestWithinFifty ==
    (IsJob /\ Len(req.outcome) >= 4) =>
        \A i \in 1..Len(req.impacts) :
            /\ Len(req.impacts[i]) <= 5
            /\ {c.snp_id : c \in Range(req.impacts[i])}
                   = NearestAffected(req.parser[1].file,
                                     req.edit_suggestions[i].target_position)

\* The number of entries of snp_changes that are causal candidates, and of
\* those whose effect_size exceeds 0.3.
CausalCount ==
    Cardinality({k \in 1..Len(req.snp_changes) :
                    req.snp_changes[k].is_causal_candidate})
HighImpactCount ==
    Cardinality({k \in 1..Len(req.snp_changes) :
                    req.snp_changes[k].effect_size > HighImpactEffect})

\* C19: the risk label of a completed request is the High label exactly when
\* more than 3 causal candidates were found, the Medium label exactly when
\* not and more than 5 high-impact variants were found, and the Low label
\* otherwise.
C19_RiskLabel ==
    (IsJob /\ req.pc = "Completed") =>
        LET risk == req.summary[1].risk_assessment
        IN  /\ risk = "High - Multiple causal candidates identified"
                   <=> CausalCount > 3
            /\ risk = "Medium - Several high-impact SNPs affected"
                   <=> (CausalCount <= 3 /\ HighImpactCount > 5)
            /\ risk = "Low - Minimal impact expected"
                   <=> (CausalCount <= 3 /\ HighImpactCount <= 5)

\* A completed request with exactly four causal candidates and the High label.
C19_Witness ==
    /\ IsJob
    /\ req.pc = "Completed"
    /\ CausalCount = 4
    /\ req.summary[1].risk_assessment = "High - Multiple causal candidates identified"

----------------------------------------------------------------------------
(* Claims about failed loads, range queries and the cache                  *)

\* C21: a request whose selected catalog fails to load (its file missing or
\* malformed) is answered with an error.
C21_LoadFailureSurfaced ==
    (IsRequest /\ req.failed) => req.status >= 400


\* C22: a range query whose start is not below its end is rejected: it raises
\* to its caller and returns no records.
C22_InvalidRangeRejected ==
    (last.op = "range" /\ last.start >= last.end) =>
        (last.raised /\ last.val = << >>)


\* C23: a range query of a loaded parser that misses the cache while the cache
\* is reachable and answers leaves its result, empty or not, under the range's
\* key, so the same query is then answered from the cache with the same list.
C23_MissedRangeIsCached ==
    [][\A i \in ParserIds, c \in Chromosomes, r \in QueryRanges :
          (/\ RangeQuery(i, c, r[1], r[2], NoRegionFaults)
           /\ is_connected(Gw)
           /\ parsers[i].snp_data # Nil
           /\ get_cached_region(Gw, parsers[i].dataset_name, c, r[1], r[2],
                                FALSE).val = Nil)
          => get_cached_region(Gw', parsers[i].dataset_name, c, r[1], r[2],
                               FALSE).val = Some(last'.val)]_vars


\* C24: after an invalidation of a catalog that reached the cache, no index,
\* metadata or region key of that catalog is stored: the index is reported as
\* not cached and every point read and range read of the catalog is a miss.
C24_InvalidateLeavesNoKey ==
    (last.op = "invalidate" /\ ~last.failed) =>
        LET gw == Gateway(TRUE, TRUE, store)
        IN  /\ last.name \notin DOMAIN store.index
            /\ last.name \notin DOMAIN store.meta
            /\ \A k \in DOMAIN store.region : k[1] # last.name
            /\ ~cache_index_exists(gw, last.name, FALSE).val
            /\ \A c \in Chromosomes :
                  /\ \A pos \in Positions :
                        get_cached_snp(gw, last.name, c, pos, FALSE).val = Nil
                  /\ \A r \in QueryRanges :
                        get_cached_region(gw, last.name, c, r[1], r[2],
                                          FALSE).val = Nil

\* An invalidation reached the cache and removed keys of its catalog.
C24_Witness ==
    /\ last.op = "invalidate" /\ ~last.failed
    /\ last.changed


----------------------------------------------------------------------------
(* Claims about the dataset registry                                       *)

Detected == last.op = "detect_plant_from_text"

ContainsCorn == "corn" \in {Lower(w) : w \in last.text}

\* The text contains the name or the display name of a plant other than maize.
NamesAnotherPlant ==
    \E i \in DOMAIN PLANT_DISPLAY_NAMES :
        /\ PLANT_DISPLAY_NAMES[i][1] # "maize"
        /\ \E w \in last.text :
              Lower(w) \in {PLANT_DISPLAY_NAMES[i][1], Lower(PLANT_DISPLAY_NAMES[i][2])}

\* C25: for every text that contains "corn" in any letter case,
\* detect_plant_from_text returns maize.
C25_CornIsMaize ==
    (Detected /\ ContainsCorn) => last.val = Some("maize")

\* C25, amended: for every text that contains "corn" in any letter case and
\* neither the name nor the display name of another plant,
\* detect_plant_from_text returns maize.
C25_CornAloneIsMaize ==
    (Detected /\ ContainsCorn /\ ~NamesAnotherPlant) => last.val = Some("maize")

\* A text with "CORN" in capitals as its only plant word was looked at.
C25_Witness ==
    /\ Detected
    /\ last.text = {"CORN"}


\* C26: a load that builds the index from a table completes without an error
\* and maps every key to the record of the last row of the table with that
\* key, also when several rows share the key.
C26_LastDuplicateRowWins ==
    (last.op = "load" /\ last.built) =>
        /\ ~last.raised
        /\ LET p == parsers[last.who]
               rows == p.snp_data[1]
           IN  \A i \in 1..Len(rows) :
                  (\A j \in (i + 1)..Len(rows) : IndexKey(rows[j]) # IndexKey(rows[i]))
                  => /\ IndexKey(rows[i]) \in DOMAIN p.snp_index
                     /\ p.snp_index[IndexKey(rows[i])] = IndexEntry(rows[i])

\* An index was built from a table in which two rows share a key.
C26_Witness ==
    /\ last.op = "load" /\ last.built /\ ~last.raised
    /\ LET rows == parsers[last.who].snp_data[1]
       IN  \E i, j \in 1..Len(rows) :
              i < j /\ IndexKey(rows[i]) = IndexKey(rows[j])


Discovered == last.op = "discover_datasets"

\* The name is a key of the static tables of the registry.
InTable(name) == \E i \in DOMAIN PLANT_TYPES : PLANT_TYPES[i][1] = name

\* The category, other than "all", that lists the name.
TableCategory(name) ==
    CHOOSE c \in {"cereals", "legumes", "fiber_crops"} :
        \E i \in DOMAIN PLANT_CATEGORIES :
            /\ PLANT_CATEGORIES[i].category = c
            /\ name \in Range(PLANT_CATEGORIES[i].plants)

\* C27: every discovered catalog has the lowercased file stem as its name; a
\* name of the static table has the table's category, plant type and display
\* name, any other name has category "other" and its title-cased name as
\* display name; no catalog has category "all".
C27_DiscoveredDescriptors ==
    Discovered =>
        /\ Len(last.val) = Len(last.bim_files)
        /\ \A i \in DOMAIN last.val :
              LET d == last.val[i]
              IN  /\ d.name = Lower(last.bim_files[i])
                  /\ d.category # "all"
                  /\ InTable(d.name) =>
                        /\ d.category = TableCategory(d.name)
                        /\ \E k \in DOMAIN PLANT_TYPES :
                              PLANT_TYPES[k] = <<d.name, d.plant_type>>
                        /\ \E k \in DOMAIN PLANT_DISPLAY_NAMES :
                              PLANT_DISPLAY_NAMES[k] = <<d.name, d.display_name>>
                  /\ ~InTable(d.name) =>
                        /\ d.category = "other"
                        /\ d.display_name = Title(d.name)

\* A directory with a file of the table whose stem has a capital and a file
\* the table does not know was discovered.
C27_Witness ==
    /\ Discovered
    /\ last.bim_files = <<"Rice", "wheat">>
    /\ last.val[1].category = "cereals"
    /\ last.val[2].display_name = "Wheat"


----------------------------------------------------------------------------
(* Claims about the entries of suggestions and validations                 *)

\* The first of A, T, G, C that differs from the base.
FirstOtherBase(base) ==
    LET alphabet == <<"A", "T", "G", "C">>
    IN  alphabet[CHOOSE i \in 1..4 :
                    /\ alphabet[i] # base
                    /\ \A j \in 1..(i - 1) : alphabet[j] = base]

\* The entries of a returned list: each is the window of an evaluated offset,
\* targets the offset + 10, names the symbol there as original_base and the
\* first other base of A, T, G, C as target_base.
EntriesTargetMidpoint ==
    \A i \in 1..Len(last.val) :
        LET s == last.val[i]
        IN  /\ \E pos \in Range(last.evaluated) :
                  /\ s.target_position = pos + 10
                  /\ s.guide_rna = Slice(last.dna_sequence, pos, pos + 20)
            /\ s.original_base = last.dna_sequence[s.target_position + 1]
            /\ s.target_base = FirstOtherBase(s.original_base)
            /\ s.target_base # s.original_base

\* C28: suggest_edits returns for every sequence, also one with a symbol
\* outside A, T, G, C, and every returned entry targets the midpoint of its
\* window with the first other base of A, T, G, C.
C28_ReturnsMidpointEdits ==
    last.op = "suggest_edits" => (~last.raised /\ EntriesTargetMidpoint)


\* The results of the last call: the one of validate_mutation, or each of the
\* list of validate_edits.
ValidationResults ==
    IF last.op = "validate_mutation" THEN {last.val}
    ELSE IF last.op = "validate_edits" THEN Range(last.val)
    ELSE {}

----------------------------------------------------------------------------
(* Claims about the summary of the suggest pipeline                        *)

\* C30: in a completed request every high-impact change is a causal candidate,
\* so the high-impact changes are at most as many as the causal candidates, a
\* request with more than 5 high-impact changes has the High label, and no
\* request has the Medium label.
C30_HighImpactWithinCausal ==
    (IsJob /\ req.pc = "Completed") =>
        LET risk == req.summary[1].risk_assessment
        IN  /\ \A k \in 1..Len(req.snp_changes) :
                  req.snp_changes[k].effect_size > 300
                      => req.snp_changes[k].is_causal_candidate
            /\ HighImpactCount <= CausalCount
            /\ HighImpactCount > 5
                  => risk = "High - Multiple causal candidates identified"
            /\ risk # "Medium - Several high-impact SNPs affected"

\* A completed request with more than 5 high-impact changes.
C30_Witness ==
    /\ IsJob
    /\ req.pc = "Completed"
    /\ HighImpactCount > 5


----------------------------------------------------------------------------
(* Claims about what a call leaves alone                                   *)

\* C31: an invalidation of a catalog leaves the index, metadata and region
\* keys of every other catalog as they were, also those of a catalog whose
\* name starts with the invalidated name.
C31_InvalidateKeepsOtherCatalogs ==
    [][\A n \in LibraryCatalogs, flt \in BOOLEAN :
          Invalidate(n, flt) =>
             /\ \A m \in DOMAIN store.index \ {n} :
                   m \in DOMAIN store'.index /\ store'.index[m] = store.index[m]
             /\ \A m \in DOMAIN store.meta \ {n} :
                   m \in DOMAIN store'.meta /\ store'.meta[m] = store.meta[m]
             /\ \A k \in DOMAIN store.region :
                   k[1] # n =>
                      k \in DOMAIN store'.region /\ store'.region[k] = store.region[k]]_vars


\* C32: a request whose swap to another catalog fails at the load leaves the
\* active parser and the active catalog name exactly as they were.
C32_FailedSwapKeepsActive ==
    [][(req'.kind \in {"suggest", "snp_info"} /\ req'.failed /\ RequestStep) =>
          /\ bim_parser' = bim_parser
          /\ current_dataset_name' = current_dataset_name]_vars

\* A request's swap failed while a loaded catalog was active, and that
\* catalog is still the active one.
C32_Witness ==
    /\ IsRequest /\ req.failed
    /\ req.target # req.active_before
    /\ bim_parser # Nil /\ LoadCompleted(bim_parser[1])
    /\ current_dataset_name = req.active_before
    /\ Some(bim_parser[1].dataset_name) = current_dataset_name


----------------------------------------------------------------------------
(* Claims about the catalog a request is served from                       *)

\* C33: the dataset name a served request reports is, up to letter case, the
\* name of the catalog of the parser its records were queried from.
C33_ReportedDatasetIsQueried ==
    (IsRequest /\ req.status = 200) =>
        /\ req.used_dataset # Nil
        /\ Lower(req.used_dataset[1]) = req.parser[1].dataset_name


\* The request gave no dataset name, no category and no text in which a plant
\* is detected.
NoSelection ==
    /\ req.dataset_name = Nil
    /\ req.category = Nil
    /\ detect_plant_from_text(req.text) = Nil

\* C34: a served request without a selection is served from the configured
\* default catalog, whatever earlier requests selected.
C34_NoSelectionUsesDefault ==
    (IsRequest /\ req.status = 200 /\ NoSelection) =>
        req.parser[1].dataset_name = DEFAULT_DATASET

\* C34, amended: a served request without a selection is served from the
\* parser that was active when it arrived, so from the catalog of the latest
\* successful swap of an earlier request, and it swaps nothing.
C34_NoSelectionUsesActive ==
    (IsRequest /\ req.status = 200 /\ NoSelection) =>
        /\ req.target = Nil
        /\ req.parser_reused
        /\ Some(req.parser[1].dataset_name) = req.active_before
        /\ current_dataset_name = req.active_before

\* A request without a selection was served from rice, which an earlier
\* request had made the active catalog.
C34_Witness ==
    /\ IsRequest /\ req.status = 200 /\ NoSelection
    /\ req.active_before = Some("rice")
    /\ req.parser[1].dataset_name = "rice"


\* C35: when no parser is active because the default catalog did not load at
\* startup, a request that names the default catalog while its file is
\* loadable is served, from a loaded parser of that catalog.
C35_DefaultCatalogRecovers ==
    [][(/\ bim_parser = Nil
        /\ fileStatus[DEFAULT_DATASET] = "ok"
        /\ req'.kind \in {"suggest", "snp_info"}
        /\ req'.dataset_name = Some(DEFAULT_DATASET)
        /\ RequestStep)
       => /\ req'.status = 200
          /\ req'.parser # Nil
          /\ req'.parser[1] = [dataset_name |-> DEFAULT_DATASET, loaded |-> TRUE]]_vars


\* C36: for every category other than "all", get_datasets_by_category returns
\* exactly the discovered catalogs of that category, those of category
\* "other" included.
C36_ByCategoryMatchesDescriptors ==
    (last.op = "get_datasets_by_category" /\ last.category # "all") =>
        Range(last.val) =
            {d \in Range(discover_datasets(last.bim_files)) :
                d.category = last.category}


\* The efficiency the window at an evaluated offset of the last call got.
EfficiencyAt(pos) ==
    predict_edit_efficiency(oracle_loaded.graph_crispr,
                            Slice(last.dna_sequence, pos, pos + 20),
                            last.noise[pos]).efficiency_score

\* The evaluated offsets whose window reached min_efficiency.
Surviving == {pos \in Range(last.evaluated) : EfficiencyAt(pos) >= last.min_efficiency}

\* The surviving offsets with no entry in the returned list.
LeftOut == {pos \in Surviving :
               \A i \in 1..Len(last.val) : last.val[i].target_position # pos + 10}

\* C37: a returned suggestion list is in non-increasing efficiency_score
\* order, holds max_suggestions of the surviving windows or all of them, and
\* no surviving window left out has a greater efficiency_score than an entry.
C37_TopOfSurvivingWindows ==
    Suggested =>
        /\ \A i, j \in 1..Len(last.val) :
              i < j => last.val[i].efficiency_score >= last.val[j].efficiency_score
        /\ Len(last.val) = Min(last.max_suggestions, Cardinality(Surviving))
        /\ \A pos \in LeftOut, i \in 1..Len(last.val) :
              EfficiencyAt(pos) <= last.val[i].efficiency_score

\* Two windows survived, one entry was asked for, and the entry returned is
\* the later window, whose efficiency is the greater.
C37_Witness ==
    /\ Suggested
    /\ Surviving = {0, 3}
    /\ last.max_suggestions = 1
    /\ Len(last.val) = 1
    /\ last.val[1].target_position = 13
    /\ EfficiencyAt(3) > EfficiencyAt(0)


\* C38: for a position inside the sequence a substitution whose original_base
\* is the symbol there replaces that symbol only, an insertion puts
\* target_base before that symbol, a deletion removes that symbol only; any
\* other edit type, and a position outside the sequence (its length
\* included), leave the sequence as it was.
C38_ApplyEditByType ==
    last.op = "apply_edit" =>
        LET s == last.sequence
            e == last.edit
            p == e.target_position
            r == last.val
            n == Len(s)
            inside == 0 <= p /\ p < n
        IN  /\ (inside /\ e.edit_type = "substitution"
                       /\ s[p + 1] = e.original_base) =>
                  /\ Len(r) = n
                  /\ r[p + 1] = e.target_base
                  /\ \A i \in 1..n : i # p + 1 => r[i] = s[i]
            /\ (inside /\ e.edit_type = "insertion") =>
                  /\ Len(r) = n + 1
                  /\ r[p + 1] = e.target_base
                  /\ \A i \in 1..p : r[i] = s[i]
                  /\ \A i \in (p + 1)..n : r[i + 1] = s[i]
            /\ (inside /\ e.edit_type = "deletion") =>
                  /\ Len(r) = n - 1
                  /\ \A i \in 1..p : r[i] = s[i]
                  /\ \A i \in (p + 2)..n : r[i - 1] = s[i]
            /\ (~inside \/ e.edit_type \notin {"substitution", "insertion",
                                                "deletion"}) =>
                  r = s

\* An insertion at the last position of a sequence was applied.
C38_Witness ==
    /\ last.op = "apply_edit"
    /\ last.edit.edit_type = "insertion"
    /\ last.edit.target_position = Len(last.sequence) - 1
    /\ Len(last.val) = Len(last.sequence) + 1


----------------------------------------------------------------------------
(* Claims about a request without suggestions                              *)

\* suggest_edits returned to the handler with an empty list: no window fits
\* the sequence, or none reaches min_efficiency.
NoWindowSurvived ==
    /\ IsJob
    /\ Len(req.outcome) >= 2
    /\ req.outcome[2] = "ok"
    /\ req.edit_suggestions = << >>

\* C39: a request for which no window survives ends Completed and not
\* Failed, with empty lists of suggestions, validations and changes, both
\* means 0 and the risk label Low.
C39_NoSurvivorCompletesEmpty ==
    /\ [](NoWindowSurvived =>
            /\ req.pc # "Failed"
            /\ ~req.hung
            /\ req.pc = "Completed" =>
                  /\ req.status = 200
                  /\ req.validations = << >>
                  /\ req.snp_changes = << >>
                  /\ req.summary # Nil
                  /\ req.summary[1].overall_confidence = 0
                  /\ req.summary[1].trait_prediction_change = 0
                  /\ req.summary[1].total_snps_affected = 0
                  /\ req.summary[1].risk_assessment = "Low - Minimal impact expected")
    /\ (NoWindowSurvived ~> (NoWindowSurvived /\ req.pc = "Completed"))

\* A request whose windows all scored below min_efficiency was completed.
C39_Witness ==
    /\ NoWindowSurvived
    /\ req.pc = "Completed"
    /\ req.dna_sequence = DnaN
    /\ req.summary # Nil


----------------------------------------------------------------------------
(* Claims about the sign of the log odds ratio                             *)

\* C40: a log_odds_ratio other than 0 has the sign of difference: it is
\* positive when the mutated score is above the original score and negative
\* when it is below.
C40_LogOddsHasSignOfDifference ==
    \A v \in ValidationResults :
        v.log_odds_ratio # 0 =>
            /\ v.log_odds_ratio > 0 <=> v.mutated_score > v.original_score
            /\ v.log_odds_ratio < 0 <=> v.mutated_score < v.original_score
            /\ v.log_odds_ratio > 0 <=> v.difference > 0

====
